---------------------------- MODULE Spec2Model ----------------------------
(***************************************************************************)
(* primecount: the counting sieve (Sieve + counters), the P2 / B batch     *)
(* loops, the SegmentedPiTable and the Legendre / LMO drivers, as state    *)
(* machines.  One variable per program object; a specification per         *)
(* subsystem drives only its own object and leaves the others idle.        *)
(***************************************************************************)
EXTENDS Integers, Sequences, FiniteSets

VARIABLES
    sieve,   \* the Sieve object: bits, total_count, counters[], count cursor
    last,    \* the last operation performed and what it returned
    p2,      \* the P2 / B driver: its locals, the batch's result slots, its position
    pt,      \* the SegmentedPiTable object and the progress of its init()
    pl,      \* a call of pi_legendre or pi_simple: its stack of frames
    lmo,     \* pi_legendre, pi_lmo3 and pi_lmo5 called on one x: results and locals
    lb,      \* the LoadBalancer: its cursor, its lock, the workers and their chunks
    cmd,     \* a run of parseOptions: the tokens left, the options set, the error
    json,    \* the backup file: the entries stored by backup()
    status,  \* the S2Status object, its lock, the clock, the threads inside print
    phi0     \* a call of Phi0_OpenMP: the threads' stacks of Phi0_thread frames

vars == <<sieve, last, p2, pt, pl, lmo, lb, cmd, json, status, phi0>>

Idle == [op |-> "idle"]

(***************************************************************************)
(* Arithmetic helpers                                                      *)
(***************************************************************************)
min(a, b) == IF a < b THEN a ELSE b

max(a, b) == IF a > b THEN a ELSE b

\* ceil_div(a, b) = (a + b - 1) / b
ceil_div(a, b) == (a + b - 1) \div b

\* isqrt(x): the largest r with r * r <= x
isqrt(x) == IF x <= 0 THEN 0 ELSE CHOOSE r \in 0..x : r * r <= x /\ (r + 1) * (r + 1) > x

IsPrime(n) == n > 1 /\ \A d \in 2..(n - 1) : d * d > n \/ n % d # 0

RECURSIVE SumSeq(_)
SumSeq(s) == IF s = <<>> THEN 0 ELSE Head(s) + SumSeq(Tail(s))

(***************************************************************************)
(* Sieve with counters                                                     *)
(*                                                                         *)
(* A position is the offset n - low of a number of the segment [low, high).*)
(* Only odd numbers have a bit (low is even); bits is the set of positions *)
(* whose bit is 1.  counters[i] covers the positions                       *)
(* [i * counters_dist, (i + 1) * counters_dist).                           *)
(***************************************************************************)
SieveSize == 16

MaxCount == 3

\* the segment starts pre_sieve is called with: 0, and two starts that
\* make allocate_counters pick a counter distance of 2 and of 4
SegmentLows == {0, 64, 256}

SievingPrimes == <<2, 3, 5, 7, 11, 13, 17, 19>>

\* nearest_power_of_2(n) for the small arguments the model meets
nearest_power_of_2(n) == IF n <= 1 THEN 1 ELSE IF n <= 2 THEN 2 ELSE IF n <= 5 THEN 4 ELSE 8

\* Sieve::allocate_counters: counters_dist = nearest_power_of_2(sqrt(sqrt(segment_low)))
counters_dist_of(segment_low) == nearest_power_of_2(isqrt(isqrt(segment_low)))

\* counters_size = (sieve_size / counters_dist) + 1
counters_size_of(dist) == (SieveSize \div dist) + 1

\* count(start, stop): the 1 bits at the positions start..stop, counted
\* linearly over the sieve array
CountRange(bits, start, stop) == Cardinality({p \in bits : start <= p /\ p <= stop})

\* reset_counters: the count cursor back at the start of the segment
ResetCounters(s) ==
    [s EXCEPT !.prev_stop = 0, !.count = 0, !.counters_i = 0,
              !.counters_count = 0, !.counters_stop = s.counters_dist]

\* the multiples of prime in [low, high) that can have a bit, as positions
OddMultiples(prime, low, high) ==
    {p \in 0..(SieveSize - 1) : low + p < high /\ (low + p) % 2 = 1 /\ (low + p) % prime = 0}

\* pre_sieve(primes, c, low, high): every odd number of [low, high) set to
\* 1, the multiples of the first c primes crossed off, then the counters,
\* total_count and the count cursor initialised from the sieve array
PreSieve(c, low, high) ==
    LET odd == {p \in 0..(SieveSize - 1) : low + p < high /\ (low + p) % 2 = 1}
        gone == UNION {OddMultiples(SievingPrimes[b], low, high) : b \in 1..c}
        bits == odd \ gone
        dist == counters_dist_of(low)
    IN  [low |-> low, high |-> high, bits |-> bits,
         total_count |-> Cardinality(bits),
         counters_dist |-> dist,
         counters |-> [i \in 0..(counters_size_of(dist) - 1) |->
                          CountRange(bits, i * dist, (i + 1) * dist - 1)],
         prev_stop |-> 0, count |-> 0, counters_i |-> 0,
         counters_count |-> 0, counters_stop |-> dist]

\* The mutated cross-off: the counters are decremented for every multiple,
\* also for one whose bit is already 0.
CrossOffBitAlways(s, pos) ==
    [s EXCEPT !.total_count = @ - 1,
              !.counters[pos \div s.counters_dist] = @ - 1,
              !.bits = @ \ {pos}]

\* Sieve out one bit and update the counters if the bit was previously 1:
\*   is_bit = (sieve[i] >> bit_index) & 1; total_count -= is_bit;
\*   counters[i >> counters_dist_log2] -= is_bit; sieve[i] &= ~(1 << bit_index)
CrossOffBit(s, pos) ==
    LET is_bit == IF pos \in s.bits THEN 1 ELSE 0
    IN  [s EXCEPT !.total_count = @ - is_bit,
                  !.counters[pos \div s.counters_dist] = @ - is_bit,
                  !.bits = @ \ {pos}]

RECURSIVE CrossOffAll(_, _)
CrossOffAll(s, todo) ==
    IF todo = {} THEN s
    ELSE LET pos == CHOOSE p \in todo : \A q \in todo : p <= q
         IN  CrossOffAll(CrossOffBit(s, pos), todo \ {pos})

\* The mutated cross_off_count: the count cursor is left where it is.
CrossOffCountNoReset(s, prime) ==
    CrossOffAll(s, OddMultiples(prime, s.low, s.high))

\* cross_off_count(prime, b): the count cursor is reset, then every odd
\* multiple of prime in the segment is crossed off
CrossOffCount(s, prime) ==
    CrossOffAll(ResetCounters(s), OddMultiples(prime, s.low, s.high))

\* The mutated count: the counters phase leaves count_ as it was.
RECURSIVE CountersPhaseStale(_, _, _)
CountersPhaseStale(s, start, stop) ==
    IF s.counters_stop <= stop
    THEN CountersPhaseStale(
             [s EXCEPT !.counters_stop = @ + s.counters_dist,
                       !.counters_count = @ + s.counters[s.counters_i],
                       !.counters_i = @ + 1],
             s.counters_stop, stop)
    ELSE [s |-> s, start |-> start]

\* Sieve::count, the counters phase:
\*   while (counters_stop_ <= stop) { start = counters_stop_;
\*     counters_stop_ += counters_dist_;
\*     counters_count_ += counters_[counters_i_++]; count_ = counters_count_; }
RECURSIVE CountersPhase(_, _, _)
CountersPhase(s, start, stop) ==
    IF s.counters_stop <= stop
    THEN CountersPhase(
             [s EXCEPT !.counters_stop = @ + s.counters_dist,
                       !.counters_count = @ + s.counters[s.counters_i],
                       !.counters_i = @ + 1,
                       !.count = s.counters_count + s.counters[s.counters_i]],
             s.counters_stop, stop)
    ELSE [s |-> s, start |-> start]

\* Sieve::count(stop): start = prev_stop_ + 1; prev_stop_ = stop; the
\* counters phase; then count_ += count(start, stop).  The sieve after the
\* call; the value returned is its count field.
SieveCount(s, stop) ==
    LET r == CountersPhase([s EXCEPT !.prev_stop = stop], s.prev_stop + 1, stop)
    IN  [r.s EXCEPT !.count = @ + CountRange(r.s.bits, r.start, stop)]

NoSieve == PreSieve(0, 0, 0)

(***************************************************************************)
(* One sieve segment driven by any sequence of operations                  *)
(***************************************************************************)
SvPreSieve ==
    \E c \in 1..3, low \in SegmentLows, len \in {SieveSize - 3, SieveSize} :
        /\ sieve' = PreSieve(c, low, low + len)
        /\ last' = [op |-> "pre_sieve", nth |-> 0, hit0 |-> 0]
        /\ UNCHANGED <<p2, pt, pl, lmo, lb, cmd, json, status, phi0>>

SvCrossOffCount ==
    \E b \in 2..Len(SievingPrimes) :
        /\ last.op # "idle"
        /\ sieve' = CrossOffCount(sieve, SievingPrimes[b])
        /\ last' = [op |-> "cross_off_count", nth |-> 0,
                    hit0 |-> Cardinality(OddMultiples(SievingPrimes[b], sieve.low, sieve.high)
                                            \ sieve.bits)]
        /\ UNCHANGED <<p2, pt, pl, lmo, lb, cmd, json, status, phi0>>

\* count(stop) with stop not below the previous stop of this run of counts
SvCount ==
    \E stop \in 0..(SieveSize - 1) :
        /\ last.op # "idle"
        /\ stop >= sieve.prev_stop
        /\ last.nth < MaxCount
        /\ sieve' = SieveCount(sieve, stop)
        /\ last' = [op |-> "count", nth |-> last.nth + 1, hit0 |-> 0]
        /\ UNCHANGED <<p2, pt, pl, lmo, lb, cmd, json, status, phi0>>

InitSieve ==
    /\ sieve = NoSieve
    /\ last = Idle
    /\ p2 = Idle
    /\ pt = Idle
    /\ pl = Idle
    /\ lmo = Idle
    /\ lb = Idle
    /\ cmd = Idle
    /\ json = Idle
    /\ status = Idle
    /\ phi0 = Idle

NextSieve == SvPreSieve \/ SvCrossOffCount \/ SvCount

SpecSieve == InitSieve /\ [][NextSieve]_vars

\* C1: after any sequence of pre_sieve, cross_off_count and count,
\* total_count equals the sum of the counters and the number of 1 bits of
\* the sieve array (so a cross-off of a bit that is already 0 decrements
\* neither total_count nor its counter).
C1_TotalCountIsSumIsPopcount ==
    /\ sieve.total_count = Cardinality(sieve.bits)
    /\ sieve.total_count =
           SumSeq([i \in 1..counters_size_of(sieve.counters_dist) |-> sieve.counters[i - 1]])
    /\ \A i \in DOMAIN sieve.counters :
           sieve.counters[i] = CountRange(sieve.bits, i * sieve.counters_dist,
                                          (i + 1) * sieve.counters_dist - 1)

\* a cross-off that met a multiple whose bit was already 0, with bits left
C1_Witness ==
    /\ last.op = "cross_off_count"
    /\ last.hit0 > 0
    /\ sieve.total_count > 0
    /\ sieve.counters_dist > 1

\* C2: for a non-decreasing sequence of stops queried between two
\* cross-offs, count(stop) returns the number of 1 bits at the positions
\* 0..stop.
C2_CountIsPopcountToStop ==
    last.op = "count" => sieve.count = CountRange(sieve.bits, 0, sieve.prev_stop)

\* a later count of a run that went through the counters phase and then
\* counted a remainder linearly
C2_Witness ==
    /\ last.op = "count"
    /\ last.nth >= 2
    /\ sieve.counters_i >= 2
    /\ sieve.count > sieve.counters_count
    /\ sieve.counters_count > 0

(***************************************************************************)
(* Prime counting: pi_simple (Legendre) and the prime iterator             *)
(***************************************************************************)
\* the number of primes <= n, by trial division
PrimePi(n) == Cardinality({q \in 2..n : IsPrime(q)})

\* the primes the model has a use for, in increasing order
MaxPrime == 400

PrimeSet == {q \in 2..MaxPrime : IsPrime(q)}

PrimeSeq ==
    [i \in 1..Cardinality(PrimeSet) |->
        CHOOSE q \in PrimeSet : Cardinality({r \in PrimeSet : r <= q}) = i]

\* the i-th prime, primes[i] with primes[1] = 2
nth_prime(i) == IF i <= 1 THEN 2 ELSE PrimeSeq[i]

\* phi(x, a): the numbers <= x not divisible by any of the first a primes,
\* by the recurrence phi(x, a) = phi(x, a - 1) - phi(x / primes[a], a - 1)
RECURSIVE phi(_, _)
phi(x, a) ==
    IF a = 0 \/ x <= 0 THEN max(x, 0)
    ELSE phi(x, a - 1) - phi(x \div nth_prime(a), a - 1)

\* The mutated sum: the - 1 (the number 1, which phi counts) is dropped.
legendre_sum_with_1(x, a) == phi(x, a) + a

\* sum = phi(x, a) + a - 1
legendre_sum(x, a) == phi(x, a) + a - 1

\* pi_simple(x): 0 for x < 2, else phi(x, a) + a - 1 with a = pi_simple(isqrt(x))
RECURSIVE pi_simple(_)
pi_simple(x) ==
    IF x < 2 THEN 0
    ELSE LET a == pi_simple(isqrt(x))
         IN  legendre_sum(x, a)

\* primesieve::iterator::next_prime after the iterator was placed at n: the
\* smallest prime > n
next_prime(n) ==
    LET m == max(n, 0)
    IN  CHOOSE q \in (m + 1)..(2 * m + 3) :
            IsPrime(q) /\ \A r \in (m + 1)..(q - 1) : ~IsPrime(r)

\* primesieve::iterator::prev_prime: the largest prime < n, 0 when there is none
prev_prime(n) ==
    IF \E q \in 2..(n - 1) : IsPrime(q)
    THEN CHOOSE q \in 2..(n - 1) : IsPrime(q) /\ \A r \in (q + 1)..(n - 1) : ~IsPrime(r)
    ELSE 0

\* count_primes(it, prime, stop): the primes inside [prime, stop] ...
count_primes(prime, stop) == Cardinality({q \in prime..stop : IsPrime(q)})

\* ... and where it leaves the iterator's prime
after_count(prime, stop) == IF prime <= stop THEN next_prime(stop) ELSE prime

(***************************************************************************)
(* P2 and B: the per-thread function                                       *)
(***************************************************************************)
\* primes is the history of the loop: the primes it has processed, in order
NoResult == [sum |-> 0, pix |-> 0, iters |-> 0, primes |-> <<>>]

\* for (; prime > start; iters++) { xp = x / prime;
\*   pix += count_primes(it, next, xp); prime = rit.prev_prime(); sum += pix; }
\* checked == TRUE is the older loop, which also stops at x / prime >= z
RECURSIVE thread_loop(_, _, _, _, _, _)
thread_loop(x, start, z, checked, prime, acc) ==
    IF prime > start /\ (~checked \/ x \div prime < z)
    THEN LET xp == x \div prime
             pix == acc.pix + count_primes(acc.next, xp)
         IN  thread_loop(x, start, z, checked, prev_prime(prime),
                         [next |-> after_count(acc.next, xp), pix |-> pix,
                          sum |-> acc.sum + pix, iters |-> acc.iters + 1,
                          primes |-> Append(acc.primes, prime)])
    ELSE acc

\* The mutated thread function: the primes behind the last x / prime are
\* not counted.
thread_body_no_rest(x, start, stop, low, z, checked) ==
    LET acc == thread_loop(x, start, z, checked, prev_prime(stop + 1),
                           [next |-> next_prime(low - 1), pix |-> 0, sum |-> 0, iters |-> 0,
                            primes |-> <<>>])
    IN  [sum |-> acc.sum, iters |-> acc.iters, pix |-> acc.pix, primes |-> acc.primes]

\* the body both thread functions share, for the thread's interval [low, z)
thread_body(x, start, stop, low, z, checked) ==
    LET acc == thread_loop(x, start, z, checked, prev_prime(stop + 1),
                           [next |-> next_prime(low - 1), pix |-> 0, sum |-> 0, iters |-> 0,
                            primes |-> <<>>])
    IN  [sum |-> acc.sum, iters |-> acc.iters,
         pix |-> acc.pix + count_primes(acc.next, z - 1), primes |-> acc.primes]

\* The mutated B_thread: start is y without the max with x / z, so the loop
\* runs on into the primes of the threads behind it.
B_thread_from_y(x, y, z, low, thread_num, thread_dist) ==
    LET lo == low + thread_dist * thread_num
        zi == min(lo + thread_dist, z)
        stop == min(x \div lo, isqrt(x))
    IN  IF lo < z THEN thread_body(x, y, stop, lo, zi, FALSE) ELSE NoResult

\* The mutated B_thread: stop is x / low without the min with isqrt(x).
B_thread_no_sqrt(x, y, z, low, thread_num, thread_dist) ==
    LET lo == low + thread_dist * thread_num
        zi == min(lo + thread_dist, z)
        start == max(min(x \div zi, isqrt(x)), y)
    IN  IF lo < z THEN thread_body(x, start, x \div lo, lo, zi, FALSE) ELSE NoResult

\* B_thread(x, y, z, low, thread_num, thread_dist)
B_thread(x, y, z, low, thread_num, thread_dist) ==
    LET lo == low + thread_dist * thread_num
        zi == min(lo + thread_dist, z)
        sqrtx == isqrt(x)
        xz == min(x \div zi, sqrtx)
        stop == min(x \div lo, sqrtx)
        start == max(xz, y)
    IN  IF lo < z THEN thread_body(x, start, stop, lo, zi, FALSE) ELSE NoResult

\* The mutated P2_thread: sum += pix before the primes up to x / prime are
\* counted.
RECURSIVE thread_loop_early(_, _, _, _)
thread_loop_early(x, start, prime, acc) ==
    IF prime > start
    THEN LET xp == x \div prime
         IN  thread_loop_early(x, start, prev_prime(prime),
                 [next |-> after_count(acc.next, xp),
                  pix |-> acc.pix + count_primes(acc.next, xp),
                  sum |-> acc.sum + acc.pix, iters |-> acc.iters + 1,
                  primes |-> Append(acc.primes, prime)])
    ELSE acc

P2_thread_early(x, y, z, low, thread_num, thread_dist) ==
    LET lo == low + thread_dist * thread_num
        zi == min(lo + thread_dist, z)
        acc == thread_loop_early(x, max(x \div zi, y), prev_prime(min(x \div lo, isqrt(x)) + 1),
                   [next |-> next_prime(lo - 1), pix |-> 0, sum |-> 0, iters |-> 0,
                    primes |-> <<>>])
    IN  IF lo < z
        THEN [sum |-> acc.sum, iters |-> acc.iters,
              pix |-> acc.pix + count_primes(acc.next, zi - 1), primes |-> acc.primes]
        ELSE NoResult

\* P2_thread of the LoadBalancerP2 version
P2_thread(x, y, z, low, thread_num, thread_dist) ==
    LET lo == low + thread_dist * thread_num
        zi == min(lo + thread_dist, z)
        start == max(x \div zi, y)
        stop == min(x \div lo, isqrt(x))
    IN  IF lo < z THEN thread_body(x, start, stop, lo, zi, FALSE) ELSE NoResult

\* P2_thread of the balanceLoad versions: no low < z test, and the loop
\* also stops at x / prime >= z
P2_thread_old(x, y, z, low, thread_num, thread_distance) ==
    LET lo == low + thread_distance * thread_num
        zi == min(lo + thread_distance, z)
        start == max(x \div zi, y)
        stop == min(x \div lo, isqrt(x))
    IN  thread_body(x, start, stop, lo, zi, TRUE)

thread_fn(kind, x, y, z, low, thread_num, thread_dist) ==
    CASE kind = "B" -> B_thread(x, y, z, low, thread_num, thread_dist)
      [] kind = "P2" -> P2_thread(x, y, z, low, thread_num, thread_dist)
      [] kind = "P2old" -> P2_thread_old(x, y, z, low, thread_num, thread_dist)

(***************************************************************************)
(* P2 and B: the batch loop of P2_OpenMP / B_OpenMP                        *)
(***************************************************************************)
MaxX == 26

MaxY == 2

MaxThreads == 2

MaxDist == 2

P2Kinds == {"B", "P2", "P2old"}

in_between(lo, x, hi) == IF x < lo THEN lo ELSE IF x > hi THEN hi ELSE x

RECURSIVE SumFn(_)
SumFn(f) ==
    IF DOMAIN f = {} THEN 0
    ELSE LET e == CHOOSE e \in DOMAIN f : TRUE
         IN  f[e] + SumFn([d \in DOMAIN f \ {e} |-> f[d]])

\* The driver after its prologue, at the head of the while loop (or
\* returned already).  sum is p2 / sum; pi_low_minus_1 is pix_total in the
\* balanceLoad versions.
P2Enter(kind, x, y, threads) ==
    LET a == pi_simple(y)
        b == pi_simple(isqrt(x))
        isB == kind = "B"
        early == x < 4 \/ (~isB /\ a >= b)
        low == IF isB THEN isqrt(x) ELSE 2
    IN  [op |-> kind, x |-> x, y |-> y, z |-> x \div max(y, 1), threads |-> threads,
         pc |-> IF early THEN "done" ELSE "head",
         sum |-> IF early \/ isB THEN 0
                 ELSE ((a - 2) * (a + 1)) \div 2 - ((b - 2) * (b + 1)) \div 2,
         low |-> low,
         pi_low_minus_1 |-> IF isB /\ ~early THEN pi_simple(low - 1) ELSE 0,
         thread_dist |-> 0, ran |-> {}, res |-> <<>>, done |-> <<>>]

\* The history of the run: how many loop iterations, of any thread of any
\* batch, each prime has had so far.
Processed(done, r) ==
    LET new == {r.primes[k] : k \in DOMAIN r.primes}
    IN  [q \in DOMAIN done \cup new |->
            (IF q \in DOMAIN done THEN done[q] ELSE 0)
            + Cardinality({k \in DOMAIN r.primes : r.primes[k] = q})]

\* The mutated store: the slot is taken by order of arrival.
ThreadStoreByArrival(st, i, r) ==
    [st EXCEPT !.res[Cardinality(st.ran)] = r, !.ran = @ \cup {i},
               !.done = Processed(@, r)]

\* res[i] = B_thread(...): thread i writes its own slot
ThreadStore(st, i, r) ==
    [st EXCEPT !.res[i] = r, !.ran = @ \cup {i}, !.done = Processed(@, r)]

\* for (i = 0; i < threads; i++) { thread_sum = res[i].sum;
\*   thread_sum += pi_low_minus_1 * res[i].iters; sum += thread_sum;
\*   pi_low_minus_1 += res[i].pix; }
RECURSIVE FoldInOrder(_, _)
FoldInOrder(st, i) ==
    IF i >= st.threads THEN st
    ELSE FoldInOrder([st EXCEPT !.sum = @ + st.res[i].sum + st.pi_low_minus_1 * st.res[i].iters,
                                !.pi_low_minus_1 = @ + st.res[i].pix], i + 1)

\* the balanceLoad versions: the reduction adds the threads' returns to p2,
\* then for (i ...) { p2 += pix_total * pix_counts[i]; pix_total += pix[i]; }
RECURSIVE FoldMissing(_, _)
FoldMissing(st, i) ==
    IF i >= st.threads THEN st
    ELSE FoldMissing([st EXCEPT !.sum = @ + st.pi_low_minus_1 * st.res[i].iters,
                                !.pi_low_minus_1 = @ + st.res[i].pix], i + 1)

FoldReduction(st) ==
    FoldMissing([st EXCEPT !.sum = @ + SumFn([i \in 0..(st.threads - 1) |-> st.res[i].sum])], 0)

\* The mutated advance: low = thread_dist * threads instead of +=.
AdvanceLowAssign(low, thread_dist, threads) == thread_dist * threads

\* low += thread_dist * threads
AdvanceLow(low, thread_dist, threads) == low + thread_dist * threads

P2Call ==
    \E kind \in P2Kinds, x \in 0..MaxX, y \in 0..MaxY, threads \in 1..MaxThreads :
        /\ p2 = Idle
        /\ p2' = P2Enter(kind, x, y, threads)
        /\ UNCHANGED <<sieve, last, pt, pl, lmo, lb, cmd, json, status, phi0>>

\* while (low < z): the thread distance of the batch is whatever the load
\* balancing hands out (>= 1); the balanceLoad versions first clamp threads
\* to ceil_div(z - low, thread_distance)
P2BatchBegin ==
    \E dist \in 1..MaxDist :
        /\ p2 # Idle /\ p2.pc = "head" /\ p2.low < p2.z
        /\ LET n == IF p2.op = "P2old"
                    THEN in_between(1, p2.threads, ceil_div(p2.z - p2.low, dist))
                    ELSE p2.threads
           IN  p2' = [p2 EXCEPT !.pc = "run", !.thread_dist = dist, !.threads = n,
                                !.ran = {}, !.res = [i \in 0..(n - 1) |-> NoResult]]
        /\ UNCHANGED <<sieve, last, pt, pl, lmo, lb, cmd, json, status, phi0>>

\* one iteration of the parallel for, run by some thread at some time
P2ThreadRun ==
    \E i \in 0..(MaxThreads - 1) :
        /\ p2 # Idle /\ p2.pc = "run" /\ i < p2.threads /\ i \notin p2.ran
        /\ p2' = ThreadStore(p2, i,
                     thread_fn(p2.op, p2.x, p2.y, p2.z, p2.low, i, p2.thread_dist))
        /\ UNCHANGED <<sieve, last, pt, pl, lmo, lb, cmd, json, status, phi0>>

\* after the join: the sequential fold, then low += thread_dist * threads
P2BatchFold ==
    /\ p2 # Idle /\ p2.pc = "run" /\ p2.ran = 0..(p2.threads - 1)
    /\ LET st == IF p2.op = "P2old" THEN FoldReduction(p2) ELSE FoldInOrder(p2, 0)
       IN  p2' = [st EXCEPT !.pc = "head",
                            !.low = AdvanceLow(p2.low, p2.thread_dist, p2.threads)]
    /\ UNCHANGED <<sieve, last, pt, pl, lmo, lb, cmd, json, status, phi0>>

\* low >= z: return sum
P2Return ==
    /\ p2 # Idle /\ p2.pc = "head" /\ p2.low >= p2.z
    /\ p2' = [p2 EXCEPT !.pc = "done"]
    /\ UNCHANGED <<sieve, last, pt, pl, lmo, lb, cmd, json, status, phi0>>

InitP2 ==
    /\ sieve = NoSieve
    /\ last = Idle
    /\ p2 = Idle
    /\ pt = Idle
    /\ pl = Idle
    /\ lmo = Idle
    /\ lb = Idle
    /\ cmd = Idle
    /\ json = Idle
    /\ status = Idle
    /\ phi0 = Idle

NextP2 == P2Call \/ P2BatchBegin \/ P2ThreadRun \/ P2BatchFold \/ P2Return

SpecP2 == InitP2 /\ [][NextP2]_vars

\* the runs of SpecP2 in which the driver keeps taking its next step
FairSpecP2 == SpecP2 /\ WF_vars(NextP2)

\* the primes p with y < p <= isqrt(x)
P2Primes(x, y) == {q \in (y + 1)..isqrt(x) : IsPrime(q)}

\* sum over a < i <= b of pi(x / p[i]) - (i - 1)
P2Ref(x, y) == SumFn([q \in P2Primes(x, y) |-> PrimePi(x \div q) - (PrimePi(q) - 1)])

\* sum over the primes y < p <= isqrt(x) of pi(x / p)
BRef(x, y) == SumFn([q \in P2Primes(x, y) |-> PrimePi(x \div q)])

\* C3: P2(x, y) returns the sum over a < i <= b of pi(x / p[i]) - (i - 1),
\* and 0 when x < 4 or a >= b, for every thread count and every sequence
\* of thread distances.
C3_P2ReturnsSum ==
    (p2 # Idle /\ p2.op \in {"P2", "P2old"} /\ p2.pc = "done") =>
        p2.sum = IF p2.x < 4 \/ PrimePi(p2.y) >= PrimePi(isqrt(p2.x)) THEN 0
                 ELSE P2Ref(p2.x, p2.y)

\* a P2 that returned a non-zero sum after more than one batch of two
\* threads (its last batch was shorter than the way low has gone)
C3_Witness ==
    /\ p2 # Idle /\ p2.op \in {"P2", "P2old"} /\ p2.pc = "done"
    /\ p2.low - 2 > p2.thread_dist * p2.threads
    /\ p2.threads = 2 /\ p2.sum > 0 /\ p2.y > 0

\* the primes thread i of the current batch is responsible for
ThreadPrimes(st, i) ==
    {q \in P2Primes(st.x, st.y) :
        /\ st.low + st.thread_dist * i <= st.x \div q
        /\ st.x \div q < min(st.low + st.thread_dist * (i + 1), st.z)}

\* C4: B(x, y) returns the sum over the primes y < p <= isqrt(x) of
\* pi(x / p); each thread's partial sum is the sum of
\* pi(x / p) - pi(thread_low - 1) over its primes, and the sequentially added
\* pi_low_minus_1 * iters terms complete it.
C4_BReturnsSum ==
    (p2 # Idle /\ p2.op = "B") =>
        /\ p2.pc = "done" /\ p2.x >= 4 => p2.sum = BRef(p2.x, p2.y)
        /\ p2.pc = "run" =>
               \A i \in p2.ran :
                   LET mine == ThreadPrimes(p2, i)
                       lo == p2.low + p2.thread_dist * i
                   IN  /\ p2.res[i].iters = Cardinality(mine)
                       /\ p2.res[i].sum =
                              SumFn([q \in mine |-> PrimePi(p2.x \div q) - PrimePi(lo - 1)])

\* a B that returned a non-zero sum after more than one batch of two threads
C4_Witness ==
    /\ p2 # Idle /\ p2.op = "B" /\ p2.pc = "done"
    /\ p2.low - isqrt(p2.x) > p2.thread_dist * p2.threads
    /\ p2.threads = 2 /\ p2.sum > 0 /\ p2.y > 0

\* what the batch adds when its threads are run one after the other in
\* index order, each folded as soon as it returns
RECURSIVE Sequential(_, _)
Sequential(st, i) ==
    IF i >= st.threads THEN st
    ELSE LET r == thread_fn(st.op, st.x, st.y, st.z, st.low, i, st.thread_dist)
         IN  Sequential([st EXCEPT !.sum = @ + r.sum + st.pi_low_minus_1 * r.iters,
                                   !.pi_low_minus_1 = @ + r.pix], i + 1)

\* C5: the order in which the threads of a batch run and finish does not
\* matter: a thread that finishes writes its own result slot and nothing
\* else (the shared sum and pi_low_minus_1 stay untouched while the batch
\* runs), and the fold after the join yields the sum and pi_low_minus_1 of
\* running the threads one after the other in index order.
C5_BatchOrderIndependent ==
    [][(p2 # Idle /\ p2.pc = "run") =>
          /\ p2'.pc = "run" =>
                 /\ p2'.sum = p2.sum /\ p2'.pi_low_minus_1 = p2.pi_low_minus_1
                 /\ \A i \in 0..(p2.threads - 1) :
                        p2'.res[i] =
                            IF i \in p2'.ran
                            THEN thread_fn(p2.op, p2.x, p2.y, p2.z, p2.low, i, p2.thread_dist)
                            ELSE NoResult
          /\ p2'.pc = "head" =>
                 /\ p2'.sum = Sequential(p2, 0).sum
                 /\ p2'.pi_low_minus_1 = Sequential(p2, 0).pi_low_minus_1]_vars

\* a batch in which thread 1 finished before thread 0, both with primes
C5_Witness ==
    /\ p2 # Idle /\ p2.pc = "run" /\ p2.ran = {1}
    /\ p2.res[1].iters > 0
    /\ thread_fn(p2.op, p2.x, p2.y, p2.z, p2.low, 0, p2.thread_dist).iters > 0

\* C10: low never decreases, every batch increases it by
\* thread_distance * threads >= 1, and the loop reaches low >= z and
\* returns after finitely many batches.
C10_LowAdvancesAndLoopEnds ==
    /\ [][(p2 # Idle /\ p2' # Idle) =>
             /\ p2'.low >= p2.low
             /\ (p2.pc = "run" /\ p2'.pc = "head") =>
                    /\ p2'.low = p2.low + p2.thread_dist * p2.threads
                    /\ p2.thread_dist * p2.threads >= 1]_vars
    /\ <>(/\ p2 # Idle /\ p2.pc = "done"
          /\ \/ p2.low >= p2.z
             \/ p2.x < 4
             \/ p2.op # "B" /\ PrimePi(p2.y) >= PrimePi(isqrt(p2.x)))

\* a loop that returned after more than one batch
C10_Witness ==
    /\ p2 # Idle /\ p2.pc = "done" /\ p2.low >= p2.z
    /\ p2.low - 2 > p2.thread_dist * p2.threads

\* the fold of P2BatchFold stopped before thread i: threads 0..i-1 are folded
FoldBefore(st, i) ==
    IF st.op = "P2old" THEN FoldMissing([st EXCEPT !.threads = i], 0)
    ELSE FoldInOrder([st EXCEPT !.threads = i], 0)

\* the threads of the batch have returned; the fold is next
P2Joined == p2 # Idle /\ p2.pc = "run" /\ p2.ran = 0..(p2.threads - 1)

ThreadRange(st, i) ==
    LET lo == st.low + st.thread_dist * i
        zi == min(lo + st.thread_dist, st.z)
    IN  (max(st.x \div zi, st.y) + 1)..min(st.x \div lo, isqrt(st.x))

\* C23: over the whole run of the P2 (or B) batch loop every prime p with
\* y < p <= isqrt(x) is processed by exactly one thread of exactly one batch,
\* the thread whose interval [low_i, z_i) contains x / p: no prime has had
\* more than one iteration, at a loop head the processed primes are those
\* with x / p < low, at the return they are all of them; the prime ranges of
\* a batch's threads are pairwise disjoint, and a thread that has run has
\* processed the primes of its range, whose x / p are in its interval, once
\* each.
C23_EachPrimeOnce ==
    p2 # Idle =>
        /\ \A q \in DOMAIN p2.done : p2.done[q] = 1
        /\ p2.pc = "head" =>
              DOMAIN p2.done = {q \in P2Primes(p2.x, p2.y) : p2.x \div q < p2.low}
        /\ p2.pc = "done" => DOMAIN p2.done = P2Primes(p2.x, p2.y)
        /\ p2.pc = "run" =>
              /\ \A i, j \in 0..(p2.threads - 1) :
                    i # j => ThreadRange(p2, i) \cap ThreadRange(p2, j) = {}
              /\ \A i \in 0..(p2.threads - 1) :
                    {q \in ThreadRange(p2, i) : IsPrime(q)} = ThreadPrimes(p2, i)
              /\ \A i \in p2.ran :
                    /\ {p2.res[i].primes[k] : k \in DOMAIN p2.res[i].primes}
                          = ThreadPrimes(p2, i)
                    /\ Len(p2.res[i].primes) = Cardinality(ThreadPrimes(p2, i))
                    /\ p2.res[i].iters = Len(p2.res[i].primes)

\* a batch whose two threads have run and have processed one prime each
C23_Witness ==
    /\ p2 # Idle /\ p2.pc = "run" /\ p2.threads = 2 /\ p2.ran = {0, 1}
    /\ Cardinality(DOMAIN p2.done) = 2
    /\ p2.res[0].iters = 1 /\ p2.res[1].iters = 1

(***************************************************************************)
(* P2 with balanceLoad (P2.cpp): the thread distance starts at             *)
(* min_distance and is adapted after every batch to the batch's run time.  *)
(* min_distance (1 << 23 in the code) is scaled down so that z is several  *)
(* batches away; last records the balanceLoad call of the batch.           *)
(***************************************************************************)
min_distance == 2

\* the run times get_wtime() - start_time that balanceLoad tells apart
Seconds == {59, 60, 61}

\* integer division of C++, which truncates towards zero
trunc_div(a, b) == IF a >= 0 THEN a \div b ELSE -((-a) \div b)

\* max_distance = ceil_div(z - low, threads)
max_distance_of(low, z, threads) == trunc_div((z - low) + threads - 1, threads)

\* if (seconds < 60) *thread_distance *= 2; if (seconds > 60) *thread_distance /= 2;
adapt(thread_distance, seconds) ==
    LET d == IF seconds < 60 THEN thread_distance * 2 ELSE thread_distance
    IN  IF seconds > 60 THEN trunc_div(d, 2) ELSE d

\* The mutated balanceLoad: the adapted distance is not clamped.
balanceLoad_no_clamp(thread_distance, low, z, threads, seconds) ==
    adapt(thread_distance, seconds)

\* balanceLoad(&thread_distance, low, z, threads, start_time)
balanceLoad(thread_distance, low, z, threads, seconds) ==
    in_between(min_distance, adapt(thread_distance, seconds),
               max_distance_of(low, z, threads))

\* P2_OpenMP up to the while loop, without a backup to resume from
BlCall ==
    \E x \in 0..MaxX, y \in 0..MaxY, threads \in 1..MaxThreads :
        /\ p2 = Idle
        /\ p2' = [P2Enter("P2old", x, y, threads) EXCEPT !.thread_dist = min_distance]
        /\ last' = Idle
        /\ UNCHANGED <<sieve, pt, pl, lmo, lb, cmd, json, status, phi0>>

\* the body of while (low < z): the threads clamp, the parallel for,
\* low += thread_distance * threads, balanceLoad, the missing contributions
P2_iteration(st, seconds) ==
    LET n == in_between(1, st.threads, max_distance_of(st.low, st.z, st.thread_dist))
        ran == [st EXCEPT !.threads = n, !.ran = 0..(n - 1),
                   !.res = [i \in 0..(n - 1) |->
                               P2_thread_old(st.x, st.y, st.z, st.low, i, st.thread_dist)]]
        low == AdvanceLow(st.low, st.thread_dist, n)
        dist == balanceLoad(st.thread_dist, low, st.z, n, seconds)
    IN  [FoldReduction(ran) EXCEPT !.low = low, !.thread_dist = dist]

\* one iteration of while (low < z), without a backup file
BlBatch ==
    \E seconds \in Seconds :
        /\ p2 # Idle /\ p2.pc = "head" /\ p2.low < p2.z
        /\ LET st == P2_iteration(p2, seconds)
           IN  /\ p2' = st
               /\ last' = [op |-> "balanceLoad", thread_distance |-> p2.thread_dist,
                           low |-> st.low, z |-> p2.z, threads |-> st.threads,
                           seconds |-> seconds,
                           max_distance |-> max_distance_of(st.low, p2.z, st.threads),
                           result |-> st.thread_dist]
        /\ UNCHANGED <<sieve, pt, pl, lmo, lb, cmd, json, status, phi0>>

\* low >= z: return p2
BlReturn ==
    /\ p2 # Idle /\ p2.pc = "head" /\ p2.low >= p2.z
    /\ p2' = [p2 EXCEPT !.pc = "done"]
    /\ UNCHANGED <<sieve, last, pt, pl, lmo, lb, cmd, json, status, phi0>>

NextBalance == BlCall \/ BlBatch \/ BlReturn

SpecBalance == InitP2 /\ [][NextBalance]_vars

\* C11 as stated: after every call of balanceLoad the thread distance lies
\* within [min_distance, max_distance] = [1 << 23, ceil_div(z - low, threads)].
C11_DistanceInInterval ==
    last.op = "balanceLoad" =>
        min_distance <= last.result /\ last.result <= last.max_distance

\* C11: after every call of balanceLoad the thread distance lies between the
\* smaller and the larger of min_distance and max_distance, hence within
\* [min_distance, max_distance] whenever that interval is not empty; and as
\* long as low < z it is at least 1.
C11_DistanceClamped ==
    last.op = "balanceLoad" =>
        /\ min(min_distance, last.max_distance) <= last.result
        /\ last.result <= max(min_distance, last.max_distance)
        /\ last.low < last.z => last.result >= 1
        /\ p2.thread_dist = last.result

\* a batch that ran fast, with more than min_distance per thread left: the
\* doubled distance was cut down to max_distance
C11_Witness ==
    /\ last.op = "balanceLoad" /\ last.seconds < 60
    /\ last.low < last.z
    /\ last.max_distance > min_distance
    /\ last.thread_distance * 2 > last.max_distance
    /\ last.result = last.max_distance

(***************************************************************************)
(* Backup and resume of B (B.cpp) and P2 (P2.cpp).  json is the backup     *)
(* file: one entry per formula.  A run loads the file into p2.mem, writes  *)
(* p2.mem back at every backup, and may be stopped between two batches;    *)
(* the file stays.  One file serves the runs of one formula.  last is the  *)
(* state of the run that wrote the file's entry, at the time it wrote it.  *)
(***************************************************************************)
BkKinds == {"B", "P2old"}

\* the x of the runs: below 4, and MaxX
BkXs == {3, MaxX}

DigitChars == <<"0", "1", "2", "3", "4", "5", "6", "7", "8", "9">>

\* the decimal digits of n >= 0
RECURSIVE digits_of(_)
digits_of(n) ==
    IF n < 10 THEN <<DigitChars[n + 1]>>
    ELSE Append(digits_of(n \div 10), DigitChars[(n % 10) + 1])

\* to_str(n), to_string(n)
to_str(n) == IF n < 0 THEN <<"-">> \o digits_of(0 - n) ELSE digits_of(n)

digit_value(c) == (CHOOSE d \in 1..10 : DigitChars[d] = c) - 1

RECURSIVE digits_value(_)
digits_value(s) ==
    IF s = <<>> THEN 0
    ELSE digits_value(SubSeq(s, 1, Len(s) - 1)) * 10 + digit_value(s[Len(s)])

\* to_maxint(str), calculator::eval<T>(str) of a decimal number
to_maxint(s) == IF s[1] = "-" THEN 0 - digits_value(Tail(s)) ELSE digits_value(s)

NoEntry == [none |-> TRUE]

\* the file without entries
EmptyJson == [B |-> NoEntry, P2 |-> NoEntry]

\* json[formula]
entry_of(j, kind) == IF kind = "B" THEN j.B ELSE j.P2

set_entry(j, kind, e) == IF kind = "B" THEN [j EXCEPT !.B = e] ELSE [j EXCEPT !.P2 = e]

\* is_resume(json, "B", x, y), is_resume(json, "P2", x, y, z)
is_resume(j, kind, x, y, z) ==
    LET e == entry_of(j, kind)
    IN  IF e = NoEntry THEN FALSE
        ELSE /\ to_maxint(e.x) = x
             /\ e.y = y
             /\ kind = "P2old" => e.z = z

\* backup(json, x, y, z, low, pi_low_minus_1, thread_distance, sum, time) of
\* B.cpp, and backup(json, x, y, z, low, thread_distance, pix_total, p2, time)
\* of P2.cpp: the entry written
backup_entry(st) ==
    IF st.op = "B"
    THEN [x |-> to_str(st.x), y |-> st.y, low |-> st.low,
          pi_low_minus_1 |-> st.pi_low_minus_1, thread_distance |-> st.thread_dist,
          sieve_limit |-> st.z, sum |-> to_str(st.sum)]
    ELSE [x |-> to_str(st.x), y |-> st.y, z |-> st.z, low |-> st.low,
          thread_distance |-> st.thread_dist, pix_total |-> to_str(st.pi_low_minus_1),
          p2 |-> to_str(st.sum)]

\* backup(x, y, z, sum, time) of B.cpp: the entry of the result
result_entry(st) ==
    [x |-> to_str(st.x), y |-> st.y, sum |-> to_str(st.sum), sieve_limit |-> st.z,
     percent |-> 100]

\* what resume() assigns
Restored(e, kind) ==
    [low |-> e.low, thread_dist |-> e.thread_distance,
     pi_low_minus_1 |-> IF kind = "B" THEN e.pi_low_minus_1 ELSE to_maxint(e.pix_total),
     sum |-> to_maxint(IF kind = "B" THEN e.sum ELSE e.p2)]

\* the driver's variables with the loaded file and what resume() assigned
BkState(st, mem, resumed) ==
    [op |-> st.op, x |-> st.x, y |-> st.y, z |-> st.z, threads |-> st.threads,
     pc |-> st.pc, sum |-> st.sum, low |-> st.low, pi_low_minus_1 |-> st.pi_low_minus_1,
     thread_dist |-> st.thread_dist, ran |-> st.ran, res |-> st.res,
     mem |-> mem, resumed |-> resumed]

\* The mutated resume: pi_low_minus_1 (pix_total) is not read back.
resume_without_pix(st, j) ==
    IF is_resume(j, st.op, st.x, st.y, st.z)
    THEN LET r == Restored(entry_of(j, st.op), st.op)
         IN  BkState([st EXCEPT !.low = r.low, !.thread_dist = r.thread_dist,
                                !.sum = r.sum], j, r)
    ELSE BkState(st, IF st.op = "B" THEN set_entry(j, "B", NoEntry) ELSE j, Idle)

\* The mutated B_OpenMP: an entry that is not resumed stays in json.
resume_keeps_entry(st, j) ==
    IF is_resume(j, st.op, st.x, st.y, st.z)
    THEN LET r == Restored(entry_of(j, st.op), st.op)
         IN  BkState([st EXCEPT !.low = r.low, !.thread_dist = r.thread_dist,
                                !.pi_low_minus_1 = r.pi_low_minus_1, !.sum = r.sum], j, r)
    ELSE BkState(st, j, Idle)

\* resume(json, x, y, low, pi_low_minus_1, thread_distance, sum, time) and
\* B_OpenMP's else branch, which erases a "B" entry that is not resumed;
\* resume(json, x, y, z, low, thread_distance, pix_total, p2, time) of P2.cpp
resume(st, j) ==
    IF is_resume(j, st.op, st.x, st.y, st.z)
    THEN LET r == Restored(entry_of(j, st.op), st.op)
         IN  BkState([st EXCEPT !.low = r.low, !.thread_dist = r.thread_dist,
                                !.pi_low_minus_1 = r.pi_low_minus_1, !.sum = r.sum], j, r)
    ELSE BkState(st, IF st.op = "B" THEN set_entry(j, "B", NoEntry) ELSE j, Idle)

\* The mutated resume of the result: the "low" key is not looked at.
is_result_any(j, x, y) == is_resume(j, "B", x, y, 0)

\* resume(x, y, sum, time) of B.cpp: the entry is a result
is_result(j, x, y) ==
    IF is_resume(j, "B", x, y, 0) THEN "low" \notin DOMAIN j.B ELSE FALSE

\* the body of while (low < z) in B_OpenMP up to the backup; dist is what
\* loadBalancer.get_thread_dist(low) hands out
B_iteration(st, dist) ==
    LET ran == [st EXCEPT !.ran = 0..(st.threads - 1),
                   !.res = [i \in 0..(st.threads - 1) |->
                               B_thread(st.x, st.y, st.z, st.low, i, st.thread_dist)]]
    IN  [FoldInOrder(ran, 0) EXCEPT !.low = AdvanceLow(st.low, st.thread_dist, st.threads),
                                    !.thread_dist = dist]

\* the run's state at a backup
Snapshot(op, st) ==
    [op |-> op, kind |-> st.op, x |-> st.x, y |-> st.y, low |-> st.low,
     pi_low_minus_1 |-> st.pi_low_minus_1, thread_dist |-> st.thread_dist, sum |-> st.sum]

\* B(x, y, threads) up to the while loop of B_OpenMP, or to its return if a
\* result is stored or x < 4; P2_OpenMP up to its while loop
BkCall ==
    \E kind \in BkKinds, x \in BkXs, y \in (MaxY - 1)..MaxY, threads \in 1..MaxThreads,
       dist \in 1..MaxDist :
        /\ p2 = Idle
        /\ entry_of(json, IF kind = "B" THEN "P2old" ELSE "B") = NoEntry
        /\ LET st == P2Enter(kind, x, y, threads)
           IN  IF kind = "B"
               THEN IF is_result(json, x, y)
                    THEN /\ p2' = BkState([st EXCEPT !.pc = "done",
                                                     !.sum = to_maxint(json.B.sum)],
                                          json, Idle)
                         /\ UNCHANGED <<json, last, status, phi0>>
                    ELSE IF st.pc = "done"
                    THEN /\ p2' = BkState(st, json, Idle)
                         /\ json' = set_entry(json, "B", result_entry(st))
                         /\ last' = Snapshot("result", st)
                    ELSE /\ p2' = [resume(st, json) EXCEPT !.thread_dist = dist]
                         /\ UNCHANGED <<json, last, status, phi0>>
               ELSE IF st.pc = "done"
               THEN /\ dist = 1
                    /\ p2' = BkState(st, json, Idle)
                    /\ UNCHANGED <<json, last, status, phi0>>
               ELSE /\ dist = 1
                    /\ p2' = resume([st EXCEPT !.thread_dist = min_distance], json)
                    /\ UNCHANGED <<json, last, status, phi0>>
        /\ UNCHANGED <<sieve, pt, pl, lmo, lb, cmd, status, phi0>>

\* one iteration of while (low < z): P2 writes a backup every time, B if
\* the last one is more than 60 seconds old
BkBatch ==
    \E seconds \in Seconds, dist \in 1..MaxDist :
        /\ p2 # Idle /\ p2.pc = "head" /\ p2.low < p2.z
        /\ LET st == IF p2.op = "B" THEN B_iteration(p2, dist) ELSE P2_iteration(p2, seconds)
               mem == set_entry(p2.mem, p2.op, backup_entry(st))
           IN  IF p2.op = "B" /\ seconds <= 60
               THEN /\ p2' = st
                    /\ UNCHANGED <<json, last, status, phi0>>
               ELSE /\ p2.op = "P2old" => dist = 1
                    /\ p2' = [st EXCEPT !.mem = mem]
                    /\ json' = mem
                    /\ last' = Snapshot("backup", st)
        /\ UNCHANGED <<sieve, pt, pl, lmo, lb, cmd, status, phi0>>

\* low >= z: return the sum; B then stores the result in place of its entry
BkReturn ==
    /\ p2 # Idle /\ p2.pc = "head" /\ p2.low >= p2.z
    /\ p2' = [p2 EXCEPT !.pc = "done"]
    /\ IF p2.op = "B"
       THEN /\ json' = set_entry(json, "B", result_entry(p2))
            /\ last' = Snapshot("result", p2)
       ELSE UNCHANGED <<json, last, status, phi0>>
    /\ UNCHANGED <<sieve, pt, pl, lmo, lb, cmd, status, phi0>>

\* the process ends: stopped between two batches, or after its return
BkStop ==
    /\ p2 # Idle
    /\ p2' = Idle
    /\ UNCHANGED <<sieve, last, pt, pl, lmo, lb, cmd, json, status, phi0>>

InitBackup ==
    /\ sieve = NoSieve
    /\ last = Idle
    /\ p2 = Idle
    /\ pt = Idle
    /\ pl = Idle
    /\ lmo = Idle
    /\ lb = Idle
    /\ cmd = Idle
    /\ json = EmptyJson
    /\ status = Idle
    /\ phi0 = Idle

NextBackup == BkCall \/ BkBatch \/ BkReturn \/ BkStop

SpecBackup == InitBackup /\ [][NextBackup]_vars

\* a run starts, and resume() finds its entry
BkResumes == p2 = Idle /\ p2' # Idle /\ p2'.resumed # Idle

\* the sum of an uninterrupted run
BkRef(st) ==
    IF st.op = "B" THEN (IF st.x < 4 THEN 0 ELSE BRef(st.x, st.y))
    ELSE IF st.x < 4 \/ PrimePi(st.y) >= PrimePi(isqrt(st.x)) THEN 0
    ELSE P2Ref(st.x, st.y)

\* C19: a run that is started with the (x, y) of the entry in the backup
\* file resumes: low, pi_low_minus_1 (pix_total), the thread distance and the
\* partial sum are set to the values the stopped run had when it wrote the
\* entry; and every run, resumed or not, returns the sum of an
\* uninterrupted run.
C19_ResumeRestoresAndSumAgrees ==
    /\ [][BkResumes =>
             /\ last.op = "backup" /\ last.kind = p2'.op
             /\ last.x = p2'.x /\ last.y = p2'.y
             /\ p2'.low = last.low
             /\ p2'.pi_low_minus_1 = last.pi_low_minus_1
             /\ p2'.resumed.thread_dist = last.thread_dist
             /\ p2'.sum = last.sum
             /\ p2'.op = "P2old" => p2'.thread_dist = last.thread_dist]_vars
    /\ [][(/\ p2 = Idle /\ p2' # Idle /\ last # Idle /\ last.op = "backup"
           /\ last.kind = p2'.op /\ last.x = p2'.x /\ last.y = p2'.y)
             => p2'.resumed # Idle]_vars
    /\ [](p2 # Idle /\ p2.pc = "done" => p2.sum = BkRef(p2))

\* a run resumed behind the start, with a partial sum, that has returned
C19_Witness ==
    /\ p2 # Idle /\ p2.pc = "done"
    /\ p2.resumed # Idle
    /\ p2.resumed.low < p2.z
    /\ p2.resumed.sum # 0 /\ p2.resumed.pi_low_minus_1 > 0
    /\ p2.sum # p2.resumed.sum

\* B is called with an (x, y) that the "B" entry of the file does not have
BkMismatch ==
    /\ p2 = Idle /\ p2' # Idle /\ p2'.op = "B"
    /\ json.B # NoEntry
    /\ ~is_resume(json, "B", p2'.x, p2'.y, p2'.z)

BkCallsB == p2 = Idle /\ p2' # Idle /\ p2'.op = "B"

\* C30: after B(x, y) has completed the backup holds a "B" entry with the
\* final sum, percent 100 and no "low" key, in place of any entry that was
\* there; B called again with the same (x, y) returns the stored sum without
\* running B_OpenMP and leaves the file as it is; an entry that has a "low"
\* key is never taken as a result: B_OpenMP runs (and resumes from the entry
\* if it is of the same (x, y)).
C30_ResultIsStoredAndReused ==
    /\ [](p2 # Idle /\ p2.op = "B" /\ p2.pc = "done" =>
             /\ json.B = result_entry(p2)
             /\ "low" \notin DOMAIN json.B /\ json.B.percent = 100
             /\ to_maxint(json.B.sum) = p2.sum /\ p2.sum = BkRef(p2))
    /\ [][(/\ BkCallsB /\ json.B # NoEntry /\ "low" \notin DOMAIN json.B
           /\ to_maxint(json.B.x) = p2'.x /\ json.B.y = p2'.y)
             => /\ p2'.pc = "done"
                /\ p2'.sum = to_maxint(json.B.sum)
                /\ p2'.low = isqrt(p2'.x) /\ p2'.res = <<>>
                /\ json' = json /\ last' = last]_vars
    /\ [][(BkCallsB /\ json.B # NoEntry /\ "low" \in DOMAIN json.B)
             => IF p2'.x < 4
                THEN p2'.sum = 0 /\ json'.B = result_entry(p2')
                ELSE /\ p2'.pc = "head" /\ json' = json
                     /\ (to_maxint(json.B.x) = p2'.x /\ json.B.y = p2'.y)
                            => p2'.resumed # Idle /\ p2'.low = json.B.low]_vars

\* B has returned a stored sum: the file holds the result of an earlier run
\* that went through the loop, and this call has not been in the loop
C30_Witness ==
    /\ p2 # Idle /\ p2.op = "B" /\ p2.pc = "done" /\ p2.x >= 4
    /\ p2.res = <<>> /\ p2.low < p2.z
    /\ p2.sum > 0 /\ last.op = "result" /\ last.low >= p2.z

(***************************************************************************)
(* SegmentedPiTable                                                        *)
(*                                                                         *)
(* pi is the bucket array pi_: bucket i holds prime_count and bits (the    *)
(* set of the bit indexes 0..63 that are 1).  The minimum segment size and *)
(* the minimum thread size of the code (256 KiB * 8 and 1e7) are scaled    *)
(* down, so that a table has several segments and several workers.         *)
(***************************************************************************)
\* numbers per bucket: one 64-bit word of bits for the odd numbers
BucketSize == 128

\* stands for min_segment_size = 256 * (1 << 10) * numbers_per_byte
PtMinSegmentSize == 64

\* stands for min_thread_size = 1e7 and thread_threshold = 1e7
PtMinThreadSize == 100

PtLows == {0, 128}

PtLimits == {0, 1, 2, 3, 100, 127, 128, 300, 401, 500}

PtSegmentSizes == {1, 130, 300}

PtMaxThreads == 2

\* ideal_num_threads(threads, sieve_limit, thread_threshold)
ideal_num_threads(threads, sieve_limit, thread_threshold) ==
    max(1, min(threads, sieve_limit \div max(1, thread_threshold)))

\* The mutated constructor: segment_size_ is not made a multiple of 128.
segment_size_no_round(segment_size, max_high, minimum) ==
    min(max(segment_size, minimum), max_high)

\* the constructor's segment_size_: the caller's value raised to the
\* minimum, capped at max_high, then += 128 - segment_size_ % 128
segment_size_of(segment_size, max_high, minimum) ==
    LET s == min(max(segment_size, minimum), max_high)
    IN  s + (BucketSize - (s % BucketSize))

\* init(): thread_size = max(min_thread_size, segment_size_ / threads_),
\* then += 128 - thread_size % 128
thread_size_of(t) ==
    LET s == max(PtMinThreadSize, t.segment_size \div t.threads)
    IN  s + (BucketSize - (s % BucketSize))

\* the range [start, stop) worker i of init() is given
pt_start(t, i) == t.low + thread_size_of(t) * i

pt_stop(t, i) == min(pt_start(t, i) + thread_size_of(t), t.high)

\* prime_bit = 1ull << (p % 128 / 2): the bit index of the prime at offset p
prime_bit(p) == (p % BucketSize) \div 2

\* init_bits(start, stop, thread_num): the buckets of [start, stop) zeroed,
\* 1 marked in place of 2 when start <= 1, the primes > max(start, 2)
\* below stop marked, their number (with 2) stored in counts_[thread_num]
init_bits(t, start, stop, thread_num) ==
    LET i == (start - t.low) \div BucketSize
        j == ceil_div(stop - t.low, BucketSize)
        found == {q \in (max(start, 2) + 1)..(stop - 1) : IsPrime(q)}
        marks(k) == {prime_bit(q - t.low) : q \in {r \in found : (r - t.low) \div BucketSize = k}}
                        \cup (IF k = 0 /\ start <= 1 THEN {0} ELSE {})
    IN  [t EXCEPT !.pi = [k \in DOMAIN t.pi |->
                             IF i <= k /\ k < j
                             THEN [prime_count |-> 0, bits |-> marks(k)]
                             ELSE t.pi[k]],
                  !.counts[thread_num] = Cardinality(found) + (IF start <= 2 THEN 1 ELSE 0)]

\* The mutated prefix pass: count starts at 0 instead of pi_low_.
RECURSIVE fill_prime_count(_, _, _, _)
fill_prime_count(pi, i, stop_idx, count) ==
    IF i >= stop_idx THEN pi
    ELSE fill_prime_count([pi EXCEPT ![i].prime_count = count], i + 1, stop_idx,
                          count + Cardinality(pi[i].bits))

init_prime_count_no_pi_low(t, start, stop, thread_num) ==
    LET count == SumFn([i \in 0..(thread_num - 1) |-> t.counts[i]])
    IN  [t EXCEPT !.pi = fill_prime_count(t.pi, (start - t.low) \div BucketSize,
                                          ceil_div(stop - t.low, BucketSize), count)]

\* init_prime_count(start, stop, thread_num): count = pi_low_ + the counts
\* of the workers before; then for each bucket of [start, stop):
\* prime_count = count; count += popcnt64(bits)
init_prime_count(t, start, stop, thread_num) ==
    LET count == t.pi_low + SumFn([i \in 0..(thread_num - 1) |-> t.counts[i]])
    IN  [t EXCEPT !.pi = fill_prime_count(t.pi, (start - t.low) \div BucketSize,
                                          ceil_div(stop - t.low, BucketSize), count)]

\* operator[](n): 0 for n < 2, else the bucket's prime_count plus the 1
\* bits of the bucket that stand for odd numbers <= n
pi_at(t, n) ==
    IF n < 2 THEN 0
    ELSE LET p == n - t.low
             bucket == t.pi[p \div BucketSize]
         IN  bucket.prime_count +
                 Cardinality({k \in bucket.bits : k < ((p % BucketSize) + 1) \div 2})

\* finished(): low_ >= max_high_
pt_finished(t) == t.low >= t.max_high

\* both passes of init() are through
pt_ready(t) == t.bits_done = 0..(t.threads - 1) /\ t.count_done = 0..(t.threads - 1)

\* SegmentedPiTable(low, limit, segment_size, threads), up to the call of init()
PtNew(low, limit, segment_size, threads) ==
    LET max_high == limit + 1
        size == segment_size_of(segment_size, max_high, PtMinSegmentSize)
    IN  [op |-> "table", low |-> low, max_high |-> max_high, segment_size |-> size,
         threads |-> ideal_num_threads(threads, size, PtMinThreadSize),
         high |-> min(low + size, max_high),
         pi |-> [k \in 0..(size \div BucketSize - 1) |-> [prime_count |-> 0, bits |-> {}]],
         counts |-> [i \in 0..(threads - 1) |-> 0],
         pi_low |-> pi_simple(max(low, 1) - 1),
         bits_done |-> {}, count_done |-> {}]

PtConstruct ==
    \E low \in PtLows, limit \in PtLimits, segment_size \in PtSegmentSizes,
       threads \in 1..PtMaxThreads :
        /\ pt = Idle
        /\ low <= limit
        /\ pt' = PtNew(low, limit, segment_size, threads)
        /\ last' = [op |-> "SegmentedPiTable", low |-> low, limit |-> limit,
                    segment_size |-> segment_size, threads |-> threads]
        /\ UNCHANGED <<sieve, p2, pl, lmo, lb, cmd, json, status, phi0>>

\* one iteration of the first omp for of init()
PtInitBits ==
    \E i \in 0..(PtMaxThreads - 1) :
        /\ pt # Idle /\ ~pt_finished(pt)
        /\ i < pt.threads /\ i \notin pt.bits_done
        /\ LET t == IF pt_start(pt, i) < pt_stop(pt, i)
                    THEN init_bits(pt, pt_start(pt, i), pt_stop(pt, i), i)
                    ELSE pt
           IN  pt' = [t EXCEPT !.bits_done = @ \cup {i}]
        /\ UNCHANGED <<sieve, last, p2, pl, lmo, lb, cmd, json, status, phi0>>

\* The mutated barrier: the second loop does not wait for the first.
bits_barrier_none(t) == TRUE

\* the barrier at the end of the first omp for: every iteration of it is
\* through
bits_barrier(t) == t.bits_done = 0..(t.threads - 1)

\* one iteration of the second omp for, after the barrier that ends the first
PtInitPrimeCount ==
    \E i \in 0..(PtMaxThreads - 1) :
        /\ pt # Idle /\ ~pt_finished(pt)
        /\ bits_barrier(pt)
        /\ i < pt.threads /\ i \notin pt.count_done
        /\ LET t == IF pt_start(pt, i) < pt_stop(pt, i)
                    THEN init_prime_count(pt, pt_start(pt, i), pt_stop(pt, i), i)
                    ELSE pt
           IN  pt' = [t EXCEPT !.count_done = @ \cup {i}]
        /\ UNCHANGED <<sieve, last, p2, pl, lmo, lb, cmd, json, status, phi0>>

\* The mutated next(): high_ is not capped at max_high_.
next_window_no_cap(t) ==
    [t EXCEPT !.pi_low = pi_at(t, t.high - 1), !.low = t.high,
              !.high = t.high + t.segment_size]

\* next(): pi_low_ = operator[](high_ - 1); low_ = high_;
\* high_ = min(low_ + segment_size_, max_high_)
next_window(t) ==
    [t EXCEPT !.pi_low = pi_at(t, t.high - 1), !.low = t.high,
              !.high = min(t.high + t.segment_size, t.max_high)]

\* next(): the window slides; init() unless finished()
PtNext ==
    /\ pt # Idle /\ ~pt_finished(pt) /\ pt_ready(pt)
    /\ pt' = [next_window(pt) EXCEPT !.bits_done = {}, !.count_done = {}]
    /\ UNCHANGED <<sieve, last, p2, pl, lmo, lb, cmd, json, status, phi0>>

InitPiTable ==
    /\ sieve = NoSieve
    /\ last = Idle
    /\ p2 = Idle
    /\ pt = Idle
    /\ pl = Idle
    /\ lmo = Idle
    /\ lb = Idle
    /\ cmd = Idle
    /\ json = Idle
    /\ status = Idle
    /\ phi0 = Idle

NextPiTable == PtConstruct \/ PtInitBits \/ PtInitPrimeCount \/ PtNext

SpecPiTable == InitPiTable /\ [][NextPiTable]_vars

\* the runs in which the table's user keeps going: init() completes and
\* next() is called until finished()
FairSpecPiTable == SpecPiTable /\ WF_vars(NextPiTable)

\* the lookup as section 4.1 writes it: a mask of ((n - low) % 128) / 2 + 1 bits
pi_at_4_1(t, n) ==
    IF n < 2 THEN 0
    ELSE LET p == n - t.low
             bucket == t.pi[p \div BucketSize]
         IN  bucket.prime_count +
                 Cardinality({k \in bucket.bits : k < ((p % BucketSize) \div 2) + 1})

PtWindowReady == pt # Idle /\ ~pt_finished(pt) /\ pt_ready(pt)

\* C6 as stated: for every n of the window the lookup with the mask of
\* ((n - low) % 128) / 2 + 1 bits returns the number of primes <= n.
C6_LookupAsStated ==
    PtWindowReady =>
        LET primes == {q \in 2..pt.high : IsPrime(q)}
        IN  \A n \in pt.low..(pt.high - 1) :
                pi_at_4_1(pt, n) = Cardinality({q \in primes : q <= n})

\* C6, amended: for every n of the window [low, high) the lookup
\* prime_count + popcount(bits & mask), the mask holding the
\* ((n - low) % 128 + 1) / 2 lowest bits (those of the odd numbers <= n) and
\* n < 2 answered 0, returns the number of primes <= n; pi_table[0] = 0,
\* pi_table[1] = 0, pi_table[2] = 1.
C6_LookupIsPrimePi ==
    PtWindowReady =>
        LET primes == {q \in 2..pt.high : IsPrime(q)}
        IN  /\ \A n \in pt.low..(pt.high - 1) :
                   pi_at(pt, n) = Cardinality({q \in primes : q <= n})
            /\ pt.low = 0 /\ pt.high > 2 =>
                   pi_at(pt, 0) = 0 /\ pi_at(pt, 1) = 0 /\ pi_at(pt, 2) = 1

\* a later window of a table, built by two workers that both had buckets
C6_Witness ==
    /\ PtWindowReady
    /\ pt.low > 0 /\ pt.pi_low > 0 /\ pt.threads = 2
    /\ pt_start(pt, 1) < pt_stop(pt, 1)
    /\ pt.pi[2].bits # {}

\* a step that slides the window
PtSlides == pt # Idle /\ pt' # Idle /\ (pt'.low # pt.low \/ pt'.high # pt.high)

\* C13: after every next() the new low is the old high, the new high is
\* min(low + segment_size, max_high) and pi_low is the number of primes
\* <= low - 1; between the calls low, high and pi_low stay as they are, so
\* the windows tile [low0, max_high) without gap or overlap; and finished()
\* holds after finitely many calls.
C13_NextTilesWindows ==
    /\ [][PtSlides =>
             /\ pt_ready(pt) /\ pt.low < pt.high
             /\ pt'.low = pt.high
             /\ pt'.high = min(pt'.low + pt.segment_size, pt.max_high)
             /\ pt'.pi_low = PrimePi(pt'.low - 1)
             /\ pt'.max_high = pt.max_high /\ pt'.segment_size = pt.segment_size]_vars
    /\ [](pt # Idle => /\ pt.low <= pt.high /\ pt.high <= pt.max_high
                       /\ pt.pi_low = PrimePi(max(pt.low, 1) - 1))
    /\ <>(pt # Idle /\ pt_finished(pt) /\ pt.low = pt.max_high)

\* a table that is finished after more than three windows
C13_Witness ==
    /\ pt # Idle /\ pt_finished(pt)
    /\ pt.low > 3 * pt.segment_size
    /\ pt.pi_low > 0

LbMinSegmentSize == 128

LbMaxSize == 512

LbWorkers == 2

LbLows == {0, 2}

LbLimits == {0, 2, 100, 600}

target_low == 10

target_high == 60

\* the run times of a chunk that the resize rule tells apart
LbElapsed == {5, 30, 70}

NoWorker == 0

\* segment_size is always rounded up to a multiple of 128
round_up(n) == ceil_div(n, BucketSize) * BucketSize

LbNew(low, sieve_limit) ==
    [op |-> "LoadBalancer", low0 |-> low, low |-> low, sieve_limit |-> sieve_limit,
     segments |-> 1, segment_size |-> round_up(LbMinSegmentSize),
     max_size |-> round_up(LbMaxSize), lock |-> NoWorker, handed |-> <<>>,
     w |-> [i \in 1..LbWorkers |->
               [pc |-> "ask", low |-> 0, high |-> 0, chunks |-> 0,
                elapsed |-> 0, far |-> FALSE]]]

\* the resize rule, applied to the report of the worker that asks
update_segments(l, elapsed, far) ==
    IF elapsed < target_low /\ far
    THEN IF l.segment_size * l.segments * 2 <= l.max_size
         THEN [l EXCEPT !.segments = @ * 2]
         ELSE [l EXCEPT !.segment_size = min(round_up(@ * 2), l.max_size)]
    ELSE IF elapsed > target_high
    THEN IF l.segments > 1
         THEN [l EXCEPT !.segments = @ \div 2]
         ELSE [l EXCEPT !.segment_size = round_up(max(@ \div 2, LbMinSegmentSize))]
    ELSE l

\* The mutated dispatcher: the cursor is not guarded.
lock_ignored(l) == TRUE

\* the single mutex on the dispatcher
lock_free(l) == l.lock = NoWorker

LbConstruct ==
    \E low \in LbLows, sieve_limit \in LbLimits :
        /\ lb = Idle
        /\ lb' = LbNew(low, sieve_limit)
        /\ UNCHANGED <<sieve, last, p2, pt, pl, lmo, cmd, json, status, phi0>>

\* get_work: the worker acquires the dispatcher
LbLock ==
    \E i \in 1..LbWorkers :
        /\ lb # Idle /\ lb.w[i].pc = "ask" /\ lock_free(lb)
        /\ lb' = [lb EXCEPT !.lock = i, !.w[i].pc = "locked"]
        /\ UNCHANGED <<sieve, last, p2, pt, pl, lmo, cmd, json, status, phi0>>

\* get_work: the report is taken in, then the worker reads the cursor: the
\* chunk that starts at low, or the terminal sentinel once low >= z
LbTake ==
    \E i \in 1..LbWorkers :
        /\ lb # Idle /\ lb.w[i].pc = "locked"
        /\ LET me == lb.w[i]
               l == IF me.chunks = 0 THEN lb ELSE update_segments(lb, me.elapsed, me.far)
           IN  lb' = IF l.low < l.sieve_limit
                     THEN LET high == l.low + l.segments * l.segment_size
                          IN  [l EXCEPT !.w[i].pc = "took", !.w[i].low = l.low,
                                        !.w[i].high = high, !.w[i].chunks = 1,
                                        !.handed = Append(@, [low |-> l.low, high |-> high])]
                     ELSE [l EXCEPT !.w[i].pc = "exit", !.w[i].low = l.low,
                                    !.w[i].high = l.low,
                                    !.lock = IF @ = i THEN NoWorker ELSE @]
        /\ UNCHANGED <<sieve, last, p2, pt, pl, lmo, cmd, json, status, phi0>>

\* get_work: low += segment_size * segments, and the dispatcher is released
LbAdvance ==
    \E i \in 1..LbWorkers :
        /\ lb # Idle /\ lb.w[i].pc = "took"
        /\ lb' = [lb EXCEPT !.low = @ + (lb.w[i].high - lb.w[i].low),
                            !.w[i].pc = "work",
                            !.lock = IF @ = i THEN NoWorker ELSE @]
        /\ UNCHANGED <<sieve, last, p2, pt, pl, lmo, cmd, json, status, phi0>>

\* the worker has processed its chunk and asks for the next one, reporting
\* the elapsed seconds and whether the sum is still far from sum_approx
LbReport ==
    \E i \in 1..LbWorkers, elapsed \in LbElapsed, far \in BOOLEAN :
        /\ lb # Idle /\ lb.w[i].pc = "work"
        /\ lb' = [lb EXCEPT !.w[i].pc = "ask", !.w[i].elapsed = elapsed,
                            !.w[i].far = far /\ elapsed < target_low]
        /\ UNCHANGED <<sieve, last, p2, pt, pl, lmo, cmd, json, status, phi0>>

InitLb ==
    /\ sieve = NoSieve
    /\ last = Idle
    /\ p2 = Idle
    /\ pt = Idle
    /\ pl = Idle
    /\ lmo = Idle
    /\ lb = Idle
    /\ cmd = Idle
    /\ json = Idle
    /\ status = Idle
    /\ phi0 = Idle

NextLb == LbConstruct \/ LbLock \/ LbTake \/ LbAdvance \/ LbReport

SpecLb == InitLb /\ [][NextLb]_vars

\* where the chunks handed out so far end
LbEnd(l) == IF l.handed = <<>> THEN l.low0 ELSE l.handed[Len(l.handed)].high

\* C12: under every interleaving of the workers, each get_work hands out the
\* chunk [low, low + segment_size * segments) at the current low and advances
\* low past it: the chunks handed out are not empty, start below z and each
\* starts where the one before it ends (so they are pairwise disjoint and
\* leave no gap), the cursor is at their end whenever no worker is inside
\* get_work, and a worker is sent away only with low >= z, when the chunks
\* cover the interval up to z and no chunk is handed out any more.
C12_ChunksTileInterval ==
    lb # Idle =>
        /\ \A k \in 1..Len(lb.handed) :
               /\ lb.handed[k].low = IF k = 1 THEN lb.low0 ELSE lb.handed[k - 1].high
               /\ lb.handed[k].low < lb.handed[k].high
               /\ lb.handed[k].low < lb.sieve_limit
        /\ \A i \in 1..LbWorkers :
               /\ lb.w[i].pc \in {"took", "work"} =>
                      \E k \in 1..Len(lb.handed) :
                          /\ lb.handed[k].low = lb.w[i].low
                          /\ lb.handed[k].high = lb.w[i].high
               /\ lb.w[i].pc = "exit" =>
                      /\ lb.low >= lb.sieve_limit
                      /\ LbEnd(lb) >= lb.sieve_limit
                      /\ lb.w[i].low = lb.low
        /\ (\A i \in 1..LbWorkers : lb.w[i].pc \notin {"locked", "took"}) =>
               lb.low = LbEnd(lb)
        /\ Cardinality({i \in 1..LbWorkers : lb.w[i].pc \in {"locked", "took"}}) <= 1

\* all workers were sent away after both had taken chunks of an interval of
\* more than three chunks, whose size had changed on the way
C12_Witness ==
    /\ lb # Idle
    /\ \A i \in 1..LbWorkers : lb.w[i].pc = "exit"
    /\ Len(lb.handed) > 3
    /\ \A i \in 1..LbWorkers : lb.w[i].chunks > 0
    /\ \E k \in 1..Len(lb.handed) :
           lb.handed[k].high - lb.handed[k].low # lb.handed[1].high - lb.handed[1].low

(***************************************************************************)
(* pi_legendre and pi_simple as a call stack                               *)
(*                                                                         *)
(* pl.stack holds the frames of the calls that have not returned, the      *)
(* innermost first; pl.result is the value the last return handed back.    *)
(***************************************************************************)
MaxPiX == 100

PiNegX == 3

PiFns == {"pi_legendre", "pi_simple"}

\* pi_legendre(x, threads) or pi_simple(x, threads) is called
PiCall ==
    \E fn \in PiFns, x \in (0 - PiNegX)..MaxPiX :
        /\ pl = Idle
        /\ pl' = [op |-> "pi", fn |-> fn, x |-> x, pc |-> "enter", result |-> 0,
                  stack |-> <<[fn |-> fn, x |-> x]>>]
        /\ UNCHANGED <<sieve, last, p2, pt, lmo, lb, cmd, json, status, phi0>>

\* if (x < 2) return 0;
PiReturn0 ==
    /\ pl # Idle /\ pl.pc = "enter"
    /\ Head(pl.stack).x < 2
    /\ pl' = [pl EXCEPT !.stack = Tail(@), !.result = 0, !.pc = "return"]
    /\ UNCHANGED <<sieve, last, p2, pt, lmo, lb, cmd, json, status, phi0>>

\* y = isqrt(x); the call pi_simple(y, threads) is entered
PiRecurse ==
    /\ pl # Idle /\ pl.pc = "enter"
    /\ Head(pl.stack).x >= 2
    /\ pl' = [pl EXCEPT !.stack = <<[fn |-> "pi_simple", x |-> isqrt(Head(pl.stack).x)]>> \o @]
    /\ UNCHANGED <<sieve, last, p2, pt, lmo, lb, cmd, json, status, phi0>>

\* a = the value pi_simple(y) returned; sum = phi(x, a) + a - 1; return sum
PiResume ==
    /\ pl # Idle /\ pl.pc = "return"
    /\ pl.stack # <<>>
    /\ pl' = [pl EXCEPT !.stack = Tail(@),
                        !.result = legendre_sum(Head(pl.stack).x, pl.result)]
    /\ UNCHANGED <<sieve, last, p2, pt, lmo, lb, cmd, json, status, phi0>>

InitPi ==
    /\ sieve = NoSieve
    /\ last = Idle
    /\ p2 = Idle
    /\ pt = Idle
    /\ pl = Idle
    /\ lmo = Idle
    /\ lb = Idle
    /\ cmd = Idle
    /\ json = Idle
    /\ status = Idle
    /\ phi0 = Idle

NextPi == PiCall \/ PiReturn0 \/ PiRecurse \/ PiResume

SpecPi == InitPi /\ [][NextPi]_vars

\* every call that is entered gets to run (the program is sequential)
FairSpecPi == SpecPi /\ WF_vars(NextPi)

PiReturned == pl # Idle /\ pl.pc = "return" /\ pl.stack = <<>>

\* C7: pi_legendre(x) and pi_simple(x) terminate (the arguments of the
\* nested calls decrease strictly, and every call returns) and return the
\* number of primes <= x: 0 for x < 2, pi(10) = 4, pi(100) = 25.
C7_LegendreIsPrimePi ==
    /\ [](pl # Idle =>
            /\ \A i \in 1..(Len(pl.stack) - 1) :
                   pl.stack[i].x < pl.stack[i + 1].x /\ pl.stack[i].x >= 1
            /\ PiReturned =>
                   /\ pl.result = PrimePi(pl.x)
                   /\ pl.x < 2 => pl.result = 0
                   /\ pl.x = 10 => pl.result = 4
                   /\ pl.x = 100 => pl.result = 25)
    /\ <>PiReturned

\* pi_legendre(100) has returned 25 through nested calls
C7_Witness ==
    /\ PiReturned
    /\ pl.fn = "pi_legendre" /\ pl.x = 100 /\ pl.result = 25

(***************************************************************************)
(* pi_lmo3 and pi_lmo5                                                     *)
(*                                                                         *)
(* lmo.res holds the values the algorithms that have returned gave for     *)
(* lmo.x; lmo.run holds the locals of the algorithm that is running, one   *)
(* step per segment, per sieving prime and per special leaf.               *)
(***************************************************************************)
MaxLmoX == 100

\* larger x, at which S2 has special leaves
LmoSamples == {729, 1000, 1331, 10000, 140608}

LmoXs == (0..MaxLmoX) \cup LmoSamples

\* the values set_alpha is called with
MaxAlpha == 7

\* iroot<3>(x) and iroot<6>(x)
iroot3(x) == CHOOSE r \in 0..x : r * r * r <= x /\ (r + 1) * (r + 1) * (r + 1) > x

iroot6(x) == CHOOSE r \in 0..x : r * r * r * r * r * r <= x
                                 /\ (r + 1) * (r + 1) * (r + 1) * (r + 1) * (r + 1) * (r + 1) > x

\* mu[n], the Moebius function
mu(n) ==
    IF \E d \in 2..n : d * d <= n /\ n % (d * d) = 0 THEN 0
    ELSE IF Cardinality({q \in 2..n : n % q = 0 /\ IsPrime(q)}) % 2 = 0 THEN 1 ELSE -1

\* lpf[n], the least prime factor of n; lpf[1] is the largest int32, so
\* that n = 1 passes lpf[n] > primes[c]
lpf(n) ==
    IF n <= 1 THEN (2 ^ 30 - 1) * 2 + 1
    ELSE CHOOSE d \in 2..n : n % d = 0 /\ \A e \in 2..(d - 1) : n % e # 0

\* the vector primes: primes[0] = 0, then the first a primes
primes_vector(a) == [i \in 0..a |-> IF i = 0 THEN 0 ELSE nth_prime(i)]

\* S1: for (n = 1; n <= y; n++) if (lpf[n] > primes[c])
\*       S1_result += mu[n] * phi(x / n, c)
S1(x, y, c, primes) ==
    SumFn([n \in {k \in 1..y : lpf(k) > primes[c]} |-> mu(n) * phi(x \div n, c)])

\* P2(x, a, threads) as pi_lmo3 calls it: the number of n <= x with two
\* prime factors, both above the a-th prime
P2_a(x, a) == P2Ref(x, IF a = 0 THEN 0 ELSE nth_prime(a))

\* P2(x, y, threads) run by one thread, every batch with the distance dist
RECURSIVE P2_batches(_, _)
P2_batches(st, dist) ==
    IF st.pc = "done" \/ st.low >= st.z THEN st.sum
    ELSE LET run == [st EXCEPT !.thread_dist = dist, !.ran = {},
                               !.res = [i \in 0..(st.threads - 1) |-> NoResult]]
             ran == ThreadStore(run, 0, thread_fn(st.op, st.x, st.y, st.z, st.low, 0, dist))
             folded == FoldInOrder(ran, 0)
         IN  P2_batches([folded EXCEPT !.low = AdvanceLow(st.low, dist, st.threads)], dist)

P2(x, y) == P2_batches(P2Enter("P2", x, y, 1), max(x \div max(y, 1), 1))

\* PhiTiny::get_c(y): the number of primes <= y, at most the largest a
\* PhiTiny has a table for
PhiTinyMaxA == 7

get_c(y) == min(PrimePi(y), PhiTinyMaxA)

\* pi_legendre(x)
pi_legendre(x) == IF x < 2 THEN 0 ELSE legendre_sum(x, pi_simple(isqrt(x)))

(***************************************************************************)
(* pi_lmo3: alpha = max(1.0, log(log((double) x)) * 1.1) is a double;      *)
(* x13_alpha = (int64_t)(x13 * alpha) and                                  *)
(* x23_alpha = (int64_t) pow(x / alpha, 2.0 / 3.0) are tabulated: both     *)
(* are 1 at x = 2 and go up by one at each x listed (by two where an x is  *)
(* listed twice), for x <= 1300; the larger samples are listed apart.      *)
(***************************************************************************)
Lmo3Steps13 ==
    <<8, 27, 29, 64, 64, 125, 125, 171, 216, 216, 343, 343, 474, 512, 512, 729, 729,
      912, 1000, 1000>>

Lmo3Steps23 ==
    <<3, 6, 9, 12, 17, 24, 31, 39, 47, 56, 66, 76, 87, 98, 109, 121, 134, 147, 160, 174,
      188, 203, 218, 234, 250, 266, 282, 300, 317, 335, 353, 371, 390, 409, 429, 448,
      468, 489, 510, 531, 552, 574, 596, 618, 641, 664, 687, 711, 734, 758, 783, 807,
      832, 858, 883, 909, 935, 961, 988, 1014, 1041, 1069, 1096, 1124, 1152, 1181,
      1209, 1238, 1267, 1297>>

Lmo3Large ==
    [x \in {10000, 140608} |->
        IF x = 10000 THEN [x13_alpha |-> 51, x23_alpha |-> 255]
        ELSE [x13_alpha |-> 141, x23_alpha |-> 1387]]

lmo3_x13_alpha(x) ==
    IF x \in DOMAIN Lmo3Large THEN Lmo3Large[x].x13_alpha
    ELSE 1 + Cardinality({k \in DOMAIN Lmo3Steps13 : Lmo3Steps13[k] <= x})

\* pow(8.0, 2.0 / 3.0) is 3.9999999999999996 when correctly rounded and
\* 4.0 when not: both truncations are possible
lmo3_x23_alpha(x) ==
    IF x \in DOMAIN Lmo3Large THEN {Lmo3Large[x].x23_alpha}
    ELSE LET n == 1 + Cardinality({k \in DOMAIN Lmo3Steps23 : Lmo3Steps23[k] <= x})
         IN  IF x = 8 THEN {n, n + 1} ELSE {n}

\* int64_t min_segment_size = 10
min_segment_size == 10

\* the k < high that for (; k < high; k += step) sieve[k - low] = 0 visits
sieved_out(k0, step, high) == {k \in k0..(high - 1) : (k - k0) % step = 0}

\* and the k it ends with
next_after(k0, step, high) == IF k0 >= high THEN k0 ELSE k0 + step * ceil_div(high - k0, step)

\* pi_lmo3 up to the first segment of S2
Lmo3Enter(x, x23_alpha) ==
    LET x13_alpha == lmo3_x13_alpha(x)
        a == PrimePi(x13_alpha)
        c == IF a < 6 THEN a ELSE 6
        primes == primes_vector(a)
        limit == x23_alpha + 1
    IN  [alg |-> "pi_lmo3", pc |-> "segment", y |-> x13_alpha, a |-> a, c |-> c,
         primes |-> primes, limit |-> limit,
         segment_size |-> max(min_segment_size, limit \div x13_alpha),
         s1 |-> S1(x, x13_alpha, c, primes),
         low |-> 1, high |-> 1, sieve |-> {}, next |-> primes,
         phi |-> [i \in 0..a |-> 0], s2 |-> 0,
         b |-> 0, prime |-> 0, m |-> 0, min_m |-> 0, i |-> 0, leaves |-> 0,
         left_at |-> a + 1]

\* the next m of for (m = max_m; m > min_m; m--) that is a special leaf, 0
\* when there is none
next_leaf(r) ==
    LET ms == {k \in (r.min_m + 1)..r.m : mu(k) # 0 /\ r.prime < lpf(k)}
    IN  IF ms = {} THEN 0 ELSE CHOOSE k \in ms : \A j \in ms : j <= k

\* for (y = x / (m * prime); i <= y; i++) phi[b + 1] += sieve[i - low];
\* S2_result -= mu[m] * phi[b + 1]
lmo3_leaf(x, r, m) ==
    LET y == x \div (m * r.prime)
        cnt == Cardinality({n \in r.sieve : r.i <= n /\ n <= y})
    IN  [r EXCEPT !.phi[r.b + 1] = @ + cnt,
                  !.i = max(r.i, y + 1),
                  !.s2 = @ - mu(m) * (r.phi[r.b + 1] + cnt),
                  !.m = m - 1, !.leaves = @ + 1]

\* The mutated two-prime leaf of pi_lmo5: phi[b] is left out.
lmo5_leaf_no_phi(x, r, q, sign) ==
    LET sv == SieveCount(r.sv, x \div (r.prime * q) - r.low)
    IN  [r EXCEPT !.sv = sv, !.s2 = @ + sign * sv.count, !.leaves = @ + 1]

\* The mutated leaf: stop = xpm, low is not taken off.
lmo5_leaf_no_low(x, r, q, sign) ==
    LET sv == SieveCount(r.sv, x \div (r.prime * q))
    IN  [r EXCEPT !.sv = sv, !.s2 = @ + sign * (r.phi[r.b] + sv.count),
                  !.leaves = @ + 1]

\* xpm = x / (prime * m); stop = xpm - low;
\* phi_xpm = phi[b] + sieve.count(stop); s2 -= mu[m] * phi_xpm
\* (q is m and sign is -mu[m]; for a leaf of two primes q is primes[l] and
\* sign is 1)
lmo5_leaf(x, r, q, sign) ==
    LET sv == SieveCount(r.sv, x \div (r.prime * q) - r.low)
    IN  [r EXCEPT !.sv = sv, !.s2 = @ + sign * (r.phi[r.b] + sv.count),
                  !.leaves = @ + 1]

\* The mutated end of a b iteration: phi[b] is not advanced.
lmo5_prime_end_no_phi(r) ==
    [r EXCEPT !.sv = CrossOffCount(r.sv, r.prime)]

\* The mutated end of a b iteration: the total count is taken after the
\* multiples of the prime have been crossed off.
lmo5_prime_end_after(r) ==
    [r EXCEPT !.phi[r.b] = @ + CrossOffCount(r.sv, r.prime).total_count,
              !.sv = CrossOffCount(r.sv, r.prime)]

\* phi[b] += sieve.get_total_count(); sieve.cross_off_count(prime, b)
lmo5_prime_end(r) ==
    [r EXCEPT !.phi[r.b] = @ + r.sv.total_count,
              !.sv = CrossOffCount(r.sv, r.prime)]

\* pi_lmo5 up to the first segment of S2.  Sieve::get_segment_size is
\* scaled down to SieveSize.
Lmo5Enter(x, alpha) ==
    LET y == iroot3(x) * alpha
        c == get_c(y)
        pi_y == PrimePi(y)
        primes == primes_vector(pi_y)
    IN  [alg |-> "pi_lmo5", pc |-> "segment", y |-> y, a |-> pi_y, c |-> c,
         primes |-> primes, limit |-> x \div y, segment_size |-> SieveSize,
         p2 |-> P2(x, y), s1 |-> S1(x, y, c, primes),
         pi_sqrty |-> PrimePi(isqrt(y)),
         low |-> 0, high |-> 0, sv |-> NoSieve,
         phi |-> [i \in 0..pi_y |-> 0], s2 |-> 0,
         b |-> 0, prime |-> 0, m |-> 0, l |-> 0, min_m |-> 0, leaves |-> 0,
         left_at |-> pi_y + 1]

\* get_alpha_lmo(x): the alpha that was set, inside [1, iroot<6>(x)]
get_alpha_lmo(x, alpha) == in_between(1, alpha, iroot6(x))

LmoReady(alg) == lmo # Idle /\ lmo.run = Idle /\ alg \notin DOMAIN lmo.res

LmoRunning(alg, pc) == lmo # Idle /\ lmo.run # Idle /\ lmo.run.alg = alg /\ lmo.run.pc = pc

\* alg returns value; leaves keeps the number of special leaves it went through
LmoResult(alg, value) ==
    [lmo EXCEPT !.run = Idle,
                !.res = [g \in DOMAIN lmo.res \cup {alg} |->
                            IF g = alg THEN value ELSE lmo.res[g]],
                !.leaves = [g \in DOMAIN lmo.res \cup {alg} |->
                               IF g # alg THEN lmo.leaves[g]
                               ELSE IF lmo.run = Idle THEN 0 ELSE lmo.run.leaves]]

\* an x is taken and pi_legendre(x) is called
LmoLegendre ==
    \E x \in LmoXs :
        /\ lmo = Idle
        /\ lmo' = [op |-> "lmo", x |-> x, run |-> Idle,
                   leaves |-> [g \in {"pi_legendre"} |-> 0],
                   res |-> [g \in {"pi_legendre"} |-> pi_legendre(x)]]
        /\ UNCHANGED <<sieve, last, p2, pt, pl, lb, cmd, json, status, phi0>>

\* pi_lmo3(x): if (x < 2) return 0; else up to the call of S2
Lmo3Call ==
    /\ LmoReady("pi_lmo3")
    /\ \E x23_alpha \in lmo3_x23_alpha(max(lmo.x, 2)) :
           lmo' = IF lmo.x < 2 THEN LmoResult("pi_lmo3", 0)
                  ELSE [lmo EXCEPT !.run = Lmo3Enter(lmo.x, x23_alpha)]
    /\ UNCHANGED <<sieve, last, p2, pt, pl, lb, cmd, json, status, phi0>>

\* for (low = 1; low < limit; low += segment_size): the sieve filled with
\* 1, high = min(low + segment_size, limit), the multiples of the first c
\* primes sieved out
Lmo3Segment ==
    /\ LmoRunning("pi_lmo3", "segment")
    /\ lmo.run.low < lmo.run.limit
    /\ LET r == lmo.run
           high == min(r.low + r.segment_size, r.limit)
           out == UNION {sieved_out(r.next[b], r.primes[b], high) : b \in 1..r.c}
       IN  lmo' = [lmo EXCEPT !.run =
                      [r EXCEPT !.high = high, !.sieve = (r.low..(high - 1)) \ out,
                                !.next = [b \in DOMAIN r.next |->
                                             IF 1 <= b /\ b <= r.c
                                             THEN next_after(r.next[b], r.primes[b], high)
                                             ELSE r.next[b]],
                                !.b = r.c, !.pc = "prime"]]
    /\ UNCHANGED <<sieve, last, p2, pt, pl, lb, cmd, json, status, phi0>>

\* for (b = c; b + 1 < a; b++): prime, max_m, min_m, i = low, and the m
\* loop is entered
Lmo3Prime ==
    /\ LmoRunning("pi_lmo3", "prime")
    /\ lmo.run.b + 1 < lmo.run.a
    /\ LET r == lmo.run
           prime == r.primes[r.b + 1]
           max_m == min(lmo.x \div (r.low * prime), r.y)
           min_m == max(lmo.x \div (r.high * prime), r.y \div prime)
       IN  /\ prime <= max_m
           /\ lmo' = [lmo EXCEPT !.run = [r EXCEPT !.prime = prime, !.m = max_m,
                                                   !.min_m = min_m, !.i = r.low,
                                                   !.pc = "leaves"]]
    /\ UNCHANGED <<sieve, last, p2, pt, pl, lb, cmd, json, status, phi0>>

\* if (prime > max_m) break, for the prime of index k = b + 1
lmo3_break(x, r, k) == r.primes[k] > min(x \div (r.low * r.primes[k]), r.y)

\* the b loop ends, or if (prime > max_m) break: on to the next segment
\* (left_at is history: the smallest prime index a segment was left early at)
Lmo3SegmentEnd ==
    /\ LmoRunning("pi_lmo3", "prime")
    /\ LET r == lmo.run
       IN  /\ IF r.b + 1 < r.a THEN lmo3_break(lmo.x, r, r.b + 1) ELSE TRUE
           /\ lmo' = [lmo EXCEPT !.run = [r EXCEPT !.low = @ + r.segment_size,
                                                   !.pc = "segment",
                                                   !.left_at = IF r.b + 1 < r.a
                                                               THEN min(@, r.b + 1) ELSE @]]
    /\ UNCHANGED <<sieve, last, p2, pt, pl, lb, cmd, json, status, phi0>>

\* the m loop comes to a special leaf
Lmo3Leaf ==
    /\ LmoRunning("pi_lmo3", "leaves")
    /\ next_leaf(lmo.run) # 0
    /\ lmo' = [lmo EXCEPT !.run = lmo3_leaf(lmo.x, lmo.run, next_leaf(lmo.run))]
    /\ UNCHANGED <<sieve, last, p2, pt, pl, lb, cmd, json, status, phi0>>

\* the m loop is through: the rest of the segment is counted into
\* phi[b + 1], the multiples of the (b + 1)th prime are removed
Lmo3PrimeEnd ==
    /\ LmoRunning("pi_lmo3", "leaves")
    /\ next_leaf(lmo.run) = 0
    /\ LET r == lmo.run
       IN  lmo' = [lmo EXCEPT !.run =
                      [r EXCEPT !.phi[r.b + 1] = @ + Cardinality({n \in r.sieve : n >= r.i}),
                                !.sieve = @ \ sieved_out(r.next[r.b + 1], r.prime * 2, r.high),
                                !.next[r.b + 1] = next_after(@, r.prime * 2, r.high),
                                !.b = @ + 1, !.pc = "prime"]]
    /\ UNCHANGED <<sieve, last, p2, pt, pl, lb, cmd, json, status, phi0>>

\* S2 returns; sum = phi + a - 1 - P2(x, a, threads)
Lmo3Return ==
    /\ LmoRunning("pi_lmo3", "segment")
    /\ lmo.run.low >= lmo.run.limit
    /\ lmo' = LmoResult("pi_lmo3", lmo.run.s1 + lmo.run.s2 + lmo.run.a - 1
                                      - P2_a(lmo.x, lmo.run.a))
    /\ UNCHANGED <<sieve, last, p2, pt, pl, lb, cmd, json, status, phi0>>

\* no sieve.count(stop) yet
NoStop == 0 - 1

\* last after pre_sieve or cross_off_count, which put the count cursor back:
\* loop_stop is the stop of the last count since then, seg_stop that of the
\* last count in the segment
count_reset(op, seg_stop) ==
    [op |-> op, stop |-> NoStop, q |-> 0, loop_stop |-> NoStop, seg_stop |-> seg_stop,
     loop_prev |-> NoStop, seg_prev |-> NoStop, prev_q |-> 0]

\* last after sieve.count(stop) for the leaf of prime and q (m or primes[l]):
\* stop = x / (prime * q) - low
count_called(l, x, r, q) ==
    LET stop == x \div (r.prime * q) - r.low
    IN  [op |-> "count", stop |-> stop, q |-> q, loop_stop |-> stop, seg_stop |-> stop,
         loop_prev |-> l.loop_stop, seg_prev |-> l.seg_stop, prev_q |-> l.q]

\* pi_lmo5(x): if (x < 2) return 0; else up to the segment loop of S2
Lmo5Call ==
    /\ LmoReady("pi_lmo5")
    /\ "pi_lmo3" \in DOMAIN lmo.res
    /\ \E alpha \in 1..MaxAlpha :
           lmo' = IF lmo.x < 2 THEN LmoResult("pi_lmo5", 0)
                  ELSE [lmo EXCEPT !.run = Lmo5Enter(lmo.x, get_alpha_lmo(lmo.x, alpha))]
    /\ UNCHANGED <<sieve, last, p2, pt, pl, lb, cmd, json, status, phi0>>

\* for (; low < limit; low += segment_size): high, pre_sieve, b = c + 1
Lmo5Segment ==
    /\ LmoRunning("pi_lmo5", "segment")
    /\ lmo.run.low < lmo.run.limit
    /\ LET r == lmo.run
           high == min(r.low + r.segment_size, r.limit)
       IN  lmo' = [lmo EXCEPT !.run = [r EXCEPT !.high = high,
                                                !.sv = PreSieve(r.c, r.low, high),
                                                !.b = r.c + 1, !.pc = "prime"]]
    /\ last' = count_reset("pre_sieve", NoStop)
    /\ UNCHANGED <<sieve, p2, pt, pl, lb, cmd, json, status, phi0>>

\* The mutated bounds: max_m is y and l is pi[y], whatever low is.
lmo5_bounds_no_low(x, r) ==
    LET prime == r.primes[r.b]
        low1 == max(r.low, 1)
    IN  IF r.b <= r.pi_sqrty
        THEN [loop |-> 1, prime |-> prime,
              min_m |-> max(x \div (prime * r.high), r.y \div prime),
              top |-> r.y,
              skip |-> prime >= min(x \div (prime * low1), r.y)]
        ELSE [loop |-> 2, prime |-> prime,
              min_m |-> max(x \div (prime * r.high), prime),
              top |-> PrimePi(r.y),
              skip |-> prime >= r.primes[PrimePi(min(x \div (prime * low1), r.y))]]

\* The mutated bounds: the segment is left at the first prime that has no
\* leaf in it.
lmo5_bounds_no_leaf(x, r) ==
    LET prime == r.primes[r.b]
        low1 == max(r.low, 1)
    IN  IF r.b <= r.pi_sqrty
        THEN [loop |-> 1, prime |-> prime,
              min_m |-> max(x \div (prime * r.high), r.y \div prime),
              top |-> min(x \div (prime * low1), r.y),
              skip |-> min(x \div (prime * low1), r.y)
                           <= max(x \div (prime * r.high), r.y \div prime)]
        ELSE [loop |-> 2, prime |-> prime,
              min_m |-> max(x \div (prime * r.high), prime),
              top |-> PrimePi(min(x \div (prime * low1), r.y)),
              skip |-> r.primes[PrimePi(min(x \div (prime * low1), r.y))]
                           <= max(x \div (prime * r.high), prime)]

\* the bounds of the leaves of primes[b] in the segment: of the first loop
\* while b <= pi_sqrty, of the second while b < pi_y
lmo5_bounds(x, r) ==
    LET prime == r.primes[r.b]
        low1 == max(r.low, 1)
    IN  IF r.b <= r.pi_sqrty
        THEN [loop |-> 1, prime |-> prime,
              min_m |-> max(x \div (prime * r.high), r.y \div prime),
              top |-> min(x \div (prime * low1), r.y),
              skip |-> prime >= min(x \div (prime * low1), r.y)]
        ELSE [loop |-> 2, prime |-> prime,
              min_m |-> max(x \div (prime * r.high), prime),
              top |-> PrimePi(min(x \div (prime * low1), r.y)),
              skip |-> prime >= r.primes[PrimePi(min(x \div (prime * low1), r.y))]]

Lmo5InLoops(r) == r.b <= r.pi_sqrty \/ r.b < r.a

\* the head of an iteration of one of the two b loops: the leaf loop is
\* entered
Lmo5Prime ==
    /\ LmoRunning("pi_lmo5", "prime")
    /\ Lmo5InLoops(lmo.run)
    /\ LET r == lmo.run
           bd == lmo5_bounds(lmo.x, r)
       IN  /\ ~bd.skip
           /\ lmo' = [lmo EXCEPT !.run =
                         [r EXCEPT !.prime = bd.prime, !.min_m = bd.min_m,
                                   !.m = IF bd.loop = 1 THEN bd.top ELSE 0,
                                   !.l = IF bd.loop = 2 THEN bd.top ELSE 0,
                                   !.pc = IF bd.loop = 1 THEN "leaves" ELSE "leaves2"]]
    /\ UNCHANGED <<sieve, last, p2, pt, pl, lb, cmd, json, status, phi0>>

\* goto next_segment, or both b loops are through
Lmo5SegmentEnd ==
    /\ LmoRunning("pi_lmo5", "prime")
    /\ IF Lmo5InLoops(lmo.run) THEN lmo5_bounds(lmo.x, lmo.run).skip ELSE TRUE
    /\ lmo' = [lmo EXCEPT !.run = [lmo.run EXCEPT !.low = @ + lmo.run.segment_size,
                                                  !.pc = "segment",
                                                  !.left_at = IF Lmo5InLoops(lmo.run)
                                                              THEN min(@, lmo.run.b) ELSE @]]
    /\ UNCHANGED <<sieve, last, p2, pt, pl, lb, cmd, json, status, phi0>>

\* first loop: for (m = max_m; m > min_m; m--) comes to a special leaf
Lmo5Leaf ==
    /\ LmoRunning("pi_lmo5", "leaves")
    /\ next_leaf(lmo.run) # 0
    /\ LET m == next_leaf(lmo.run)
       IN  lmo' = [lmo EXCEPT !.run = [lmo5_leaf(lmo.x, lmo.run, m, 0 - mu(m))
                                          EXCEPT !.m = m - 1]]
    /\ last' = count_called(last, lmo.x, lmo.run, next_leaf(lmo.run))
    /\ UNCHANGED <<sieve, p2, pt, pl, lb, cmd, json, status, phi0>>

\* second loop: for (; primes[l] > min_m; l--), a leaf of two primes
Lmo5Leaf2 ==
    /\ LmoRunning("pi_lmo5", "leaves2")
    /\ lmo.run.primes[lmo.run.l] > lmo.run.min_m
    /\ lmo' = [lmo EXCEPT !.run = [lmo5_leaf(lmo.x, lmo.run, lmo.run.primes[lmo.run.l], 1)
                                      EXCEPT !.l = @ - 1]]
    /\ last' = count_called(last, lmo.x, lmo.run, lmo.run.primes[lmo.run.l])
    /\ UNCHANGED <<sieve, p2, pt, pl, lb, cmd, json, status, phi0>>

\* the leaf loop is through: phi[b] += sieve.get_total_count();
\* sieve.cross_off_count(prime, b)
Lmo5PrimeEnd ==
    /\ \/ LmoRunning("pi_lmo5", "leaves") /\ next_leaf(lmo.run) = 0
       \/ LmoRunning("pi_lmo5", "leaves2") /\ lmo.run.primes[lmo.run.l] <= lmo.run.min_m
    /\ lmo' = [lmo EXCEPT !.run = [lmo5_prime_end(lmo.run) EXCEPT !.b = @ + 1,
                                                                 !.pc = "prime"]]
    /\ last' = count_reset("cross_off_count", last.seg_stop)
    /\ UNCHANGED <<sieve, p2, pt, pl, lb, cmd, json, status, phi0>>

\* S2 returns; sum = s1 + s2 + pi_y - 1 - p2
Lmo5Return ==
    /\ LmoRunning("pi_lmo5", "segment")
    /\ lmo.run.low >= lmo.run.limit
    /\ lmo' = LmoResult("pi_lmo5", lmo.run.s1 + lmo.run.s2 + lmo.run.a - 1 - lmo.run.p2)
    /\ UNCHANGED <<sieve, last, p2, pt, pl, lb, cmd, json, status, phi0>>

InitLmo ==
    /\ sieve = NoSieve
    /\ last = Idle
    /\ p2 = Idle
    /\ pt = Idle
    /\ pl = Idle
    /\ lmo = Idle
    /\ lb = Idle
    /\ cmd = Idle
    /\ json = Idle
    /\ status = Idle
    /\ phi0 = Idle

NextLmo ==
    \/ LmoLegendre
    \/ Lmo3Call \/ Lmo3Segment \/ Lmo3Prime \/ Lmo3SegmentEnd \/ Lmo3Leaf
    \/ Lmo3PrimeEnd \/ Lmo3Return
    \/ Lmo5Call \/ Lmo5Segment \/ Lmo5Prime \/ Lmo5SegmentEnd \/ Lmo5Leaf \/ Lmo5Leaf2
    \/ Lmo5PrimeEnd \/ Lmo5Return

SpecLmo == InitLmo /\ [][NextLmo]_vars

StThreads == 2

StMaxTime == 2

\* the values of skewed_percent(n, limit) tried
StPercents == {0, 1, 5}

\* (time - old) >= is_print_
StIsPrint == 1

\* (percent - old) >= epsilon_
StEpsilon == 1

\* the statements between the braces of if (lock.ownsLock())
StSection == {"get_time", "set_time", "read_percent", "set_percent", "write"}

\* no status line written yet
NoLine == 0 - 1

StThread == [pc |-> "idle", owns |-> FALSE, percent |-> 0, time |-> 0]

\* S2Status(x): percent_ = -1, time_ = 0; the lock is free
StNew ==
    [lock |-> NoWorker, time_ |-> 0, percent_ |-> 0 - 1, out |-> NoLine, now |-> 0,
     th |-> [t \in 1..StThreads |-> StThread]]

\* The mutated print: the section is entered whether the lock is owned or not.
enters_always(owns) == TRUE

\* if (lock.ownsLock())
enters(owns) == owns

\* is_print(time)
is_print(s, time) == IF s.time_ = 0 THEN TRUE ELSE time - s.time_ >= StIsPrint

\* print(n, limit) is called: TryLock lock(lock_) takes the lock if it is
\* free and never waits
StCall(t) ==
    /\ status # Idle /\ status.th[t].pc = "idle"
    /\ LET free == status.lock = NoWorker
       IN  status' = [status EXCEPT !.lock = IF free THEN t ELSE @,
                                    !.th[t].pc = "test", !.th[t].owns = free]
    /\ UNCHANGED <<sieve, last, p2, pt, pl, lmo, lb, cmd, json, phi0>>

\* if (lock.ownsLock())
StTest(t) ==
    /\ status # Idle /\ status.th[t].pc = "test"
    /\ status' = [status EXCEPT !.th[t].pc =
                                    IF enters(status.th[t].owns) THEN "get_time" ELSE "exit"]
    /\ UNCHANGED <<sieve, last, p2, pt, pl, lmo, lb, cmd, json, phi0>>

\* double time = get_time(); if (is_print(time))
StGetTime(t) ==
    /\ status # Idle /\ status.th[t].pc = "get_time"
    /\ status' = [status EXCEPT !.th[t].time = status.now,
                                !.th[t].pc = IF is_print(status, status.now)
                                             THEN "set_time" ELSE "exit"]
    /\ UNCHANGED <<sieve, last, p2, pt, pl, lmo, lb, cmd, json, phi0>>

\* time_ = time; double percent = skewed_percent(n, limit)
StSetTime(t) ==
    \E percent \in StPercents :
        /\ status # Idle /\ status.th[t].pc = "set_time"
        /\ status' = [status EXCEPT !.time_ = status.th[t].time,
                                    !.th[t].percent = percent,
                                    !.th[t].pc = "read_percent"]
        /\ UNCHANGED <<sieve, last, p2, pt, pl, lmo, lb, cmd, json, phi0>>

\* double old = percent_; if ((percent - old) >= epsilon_)
StReadPercent(t) ==
    /\ status # Idle /\ status.th[t].pc = "read_percent"
    /\ status' = [status EXCEPT !.th[t].pc =
                                    IF status.th[t].percent - status.percent_ >= StEpsilon
                                    THEN "set_percent" ELSE "exit"]
    /\ UNCHANGED <<sieve, last, p2, pt, pl, lmo, lb, cmd, json, phi0>>

\* percent_ = percent
StSetPercent(t) ==
    /\ status # Idle /\ status.th[t].pc = "set_percent"
    /\ status' = [status EXCEPT !.percent_ = status.th[t].percent, !.th[t].pc = "write"]
    /\ UNCHANGED <<sieve, last, p2, pt, pl, lmo, lb, cmd, json, phi0>>

\* cout << out.str() << flush
StWrite(t) ==
    /\ status # Idle /\ status.th[t].pc = "write"
    /\ status' = [status EXCEPT !.out = status.th[t].percent, !.th[t].pc = "exit"]
    /\ UNCHANGED <<sieve, last, p2, pt, pl, lmo, lb, cmd, json, phi0>>

\* print returns: the TryLock releases the lock if it owns it
StExit(t) ==
    /\ status # Idle /\ status.th[t].pc = "exit"
    /\ status' = [status EXCEPT !.lock = IF status.th[t].owns THEN NoWorker ELSE @,
                                !.th[t] = StThread]
    /\ UNCHANGED <<sieve, last, p2, pt, pl, lmo, lb, cmd, json, phi0>>

\* the steps of thread t
StStep(t) ==
    \/ StCall(t)
    \/ StTest(t)
    \/ StGetTime(t)
    \/ StSetTime(t)
    \/ StReadPercent(t)
    \/ StSetPercent(t)
    \/ StWrite(t)
    \/ StExit(t)

StConstruct ==
    /\ status = Idle
    /\ status' = StNew
    /\ UNCHANGED <<sieve, last, p2, pt, pl, lmo, lb, cmd, json, phi0>>

\* get_time() moves on
StTick ==
    /\ status # Idle /\ status.now < StMaxTime
    /\ status' = [status EXCEPT !.now = @ + 1]
    /\ UNCHANGED <<sieve, last, p2, pt, pl, lmo, lb, cmd, json, phi0>>

InitStatus ==
    /\ sieve = NoSieve
    /\ last = Idle
    /\ p2 = Idle
    /\ pt = Idle
    /\ pl = Idle
    /\ lmo = Idle
    /\ lb = Idle
    /\ cmd = Idle
    /\ json = Idle
    /\ status = Idle
    /\ phi0 = Idle

NextStatus == StConstruct \/ StTick \/ \E t \in 1..StThreads : StStep(t)

SpecStatus == InitStatus /\ [][NextStatus]_vars

\* the threads inside the section
StInside == {t \in 1..StThreads : status.th[t].pc \in StSection}

\* thread t takes a step of a print in which it did not get the lock
StSkips(t) ==
    /\ status # Idle /\ status.th[t].pc \in {"test", "exit"} /\ ~status.th[t].owns
    /\ status'.th[t] # status.th[t]

\* C21: print never blocks (a thread inside print can always take its next
\* step, and a call can always be made, whatever the other threads do); at
\* most one thread at a time is in the section that reads and writes time_
\* and percent_ and writes the status line, and it holds the lock; a thread
\* that finds the lock held returns without printing and without changing
\* time_ or percent_.
C21_PrintNeverBlocks ==
    /\ [](status # Idle =>
             /\ Cardinality(StInside) <= 1
             /\ \A t \in StInside : status.lock = t /\ status.th[t].owns
             /\ \A t \in 1..StThreads : ENABLED StStep(t))
    /\ [][\A t \in 1..StThreads :
              StSkips(t) =>
                  /\ status'.time_ = status.time_
                  /\ status'.percent_ = status.percent_
                  /\ status'.out = status.out
                  /\ status'.lock = status.lock
                  /\ status'.th[t].pc \in {"exit", "idle"}]_vars

\* one thread is about to write the status line while another one, which
\* found the lock held, is returning
C21_Witness ==
    /\ status # Idle
    /\ \E t, u \in 1..StThreads :
           /\ status.th[t].pc = "write"
           /\ status.th[u].pc = "exit" /\ ~status.th[u].owns
           /\ status.out # NoLine

(***************************************************************************)
(* Phi0: the ordinary leaves of Gourdon's algorithm                        *)
(*                                                                         *)
(* Every thread of the parallel for keeps a stack of Phi0_thread frames;   *)
(* a step is one iteration of a loop or one return.  seen is history: how  *)
(* often each square free number has been a leaf.                          *)
(***************************************************************************)
Phi0MaxY == 7

Phi0MaxK == 2

Phi0MaxThreads == 2

\* stands for ideal_num_threads' thread_threshold (1e6)
Phi0ThreadThreshold == 3

Phi0Xs == {1, 60, 211}

Phi0Zs == {0, 6, 15, 42}

\* phi_tiny(x, a): phi(x, a) from its tables, for a <= 7
phi_tiny(x, a) == phi(x, a)

\* the frame of a call Phi0_thread<MU>(x, z, b, k, square_free, primes)
Phi0Frame(MU, b, square_free) ==
    [mu |-> MU, b |-> b, square_free |-> square_free, phi0 |-> 0]

\* The mutated recursion: Phi0_thread<MU> in place of Phi0_thread<-MU>.
Phi0_thread_same_sign(f, next) == Phi0Frame(f.mu, f.b, next)

\* Phi0_thread<-MU>(x, z, b, k, next, primes), called from the frame f
Phi0_thread(f, next) == Phi0Frame(0 - f.mu, f.b, next)

\* for (b++; b < primes.size(); b++) { next = square_free * primes[b];
\*   if (next > z) break; ...: whether the loop of frame f has another
\* iteration
Phi0Continues(st, f) ==
    IF f.b + 1 < Len(st.primes) + 1
    THEN f.square_free * st.primes[f.b + 1] <= st.z
    ELSE FALSE

\* one more leaf n in the history
Phi0Seen(seen, n) ==
    [m \in DOMAIN seen \cup {n} |-> (IF m \in DOMAIN seen THEN seen[m] ELSE 0)
                                       + (IF m = n THEN 1 ELSE 0)]

\* Phi0_OpenMP(x, y, z, k, threads) up to the parallel for; schedule(static, 1)
\* gives iteration b to thread (b - (k + 1)) % threads.  primes[1..pi_y]
\* are the primes <= y.
Phi0Enter(x, y, z, k, threads) ==
    LET n == ideal_num_threads(threads, y, Phi0ThreadThreshold)
        pi_y == PrimePi(y)
    IN  [op |-> "Phi0", pc |-> "run", x |-> x, y |-> y, z |-> z, k |-> k,
         threads |-> n, asked |-> threads,
         primes |-> [i \in 1..pi_y |-> nth_prime(i)], pi_y |-> pi_y,
         phi0 |-> phi_tiny(x, k),
         th |-> [t \in 0..(n - 1) |-> [b |-> k + 1 + t, phi0 |-> 0, stack |-> <<>>]],
         seen |-> [m \in {1} |-> 1]]

Phi0Call ==
    \E x \in Phi0Xs, y \in 0..Phi0MaxY, z \in Phi0Zs, k \in 0..Phi0MaxK,
       threads \in 1..Phi0MaxThreads :
        /\ phi0 = Idle
        /\ phi0' = Phi0Enter(x, y, z, k, threads)
        /\ UNCHANGED <<sieve, last, p2, pt, pl, lmo, lb, cmd, json, status>>

\* an iteration of the parallel for begins:
\* phi0 -= phi_tiny(x / primes[b], k); Phi0_thread<1>(x, z, b, k, primes[b], primes)
Phi0Iteration(t) ==
    /\ phi0 # Idle /\ phi0.pc = "run" /\ t < phi0.threads
    /\ LET th == phi0.th[t]
       IN  /\ th.stack = <<>> /\ th.b <= phi0.pi_y
           /\ phi0' = [phi0 EXCEPT
                  !.th[t].phi0 = @ - phi_tiny(phi0.x \div phi0.primes[th.b], phi0.k),
                  !.th[t].stack = <<Phi0Frame(1, th.b, phi0.primes[th.b])>>,
                  !.seen = Phi0Seen(@, phi0.primes[th.b])]
    /\ UNCHANGED <<sieve, last, p2, pt, pl, lmo, lb, cmd, json, status>>

\* an iteration of the loop of the innermost Phi0_thread:
\* phi0 += MU * phi_tiny(x / next, k), and the recursive call is entered
Phi0ThreadLoop(t) ==
    /\ phi0 # Idle /\ phi0.pc = "run" /\ t < phi0.threads
    /\ phi0.th[t].stack # <<>>
    /\ LET stack == phi0.th[t].stack
           d == Len(stack)
           f == stack[d]
       IN  /\ Phi0Continues(phi0, f)
           /\ LET next == f.square_free * phi0.primes[f.b + 1]
                  g == [f EXCEPT !.b = f.b + 1,
                                 !.phi0 = @ + f.mu * phi_tiny(phi0.x \div next, phi0.k)]
              IN  phi0' = [phi0 EXCEPT
                      !.th[t].stack = Append([stack EXCEPT ![d] = g], Phi0_thread(g, next)),
                      !.seen = Phi0Seen(@, next)]
    /\ UNCHANGED <<sieve, last, p2, pt, pl, lmo, lb, cmd, json, status>>

\* the loop of the innermost Phi0_thread ends (break, or no prime is left):
\* return phi0, which the caller adds to its own
Phi0ThreadReturn(t) ==
    /\ phi0 # Idle /\ phi0.pc = "run" /\ t < phi0.threads
    /\ phi0.th[t].stack # <<>>
    /\ LET stack == phi0.th[t].stack
           d == Len(stack)
           f == stack[d]
       IN  /\ ~Phi0Continues(phi0, f)
           /\ phi0' = IF d = 1
                      THEN [phi0 EXCEPT !.th[t].stack = <<>>,
                                        !.th[t].phi0 = @ + f.phi0,
                                        !.th[t].b = @ + phi0.threads]
                      ELSE [phi0 EXCEPT !.th[t].stack =
                                [SubSeq(stack, 1, d - 1) EXCEPT ![d - 1].phi0 = @ + f.phi0]]
    /\ UNCHANGED <<sieve, last, p2, pt, pl, lmo, lb, cmd, json, status>>

\* every thread is through its iterations: reduction (+: phi0), return phi0
Phi0Reduction ==
    /\ phi0 # Idle /\ phi0.pc = "run"
    /\ \A t \in 0..(phi0.threads - 1) :
           phi0.th[t].stack = <<>> /\ phi0.th[t].b > phi0.pi_y
    /\ phi0' = [phi0 EXCEPT !.pc = "done",
                            !.phi0 = @ + SumFn([t \in 0..(phi0.threads - 1) |-> phi0.th[t].phi0])]
    /\ UNCHANGED <<sieve, last, p2, pt, pl, lmo, lb, cmd, json, status>>

InitPhi0 ==
    /\ sieve = NoSieve
    /\ last = Idle
    /\ p2 = Idle
    /\ pt = Idle
    /\ pl = Idle
    /\ lmo = Idle
    /\ lb = Idle
    /\ cmd = Idle
    /\ json = Idle
    /\ status = Idle
    /\ phi0 = Idle

Phi0Step(t) == Phi0Iteration(t) \/ Phi0ThreadLoop(t) \/ Phi0ThreadReturn(t)

NextPhi0 == Phi0Call \/ Phi0Reduction \/ \E t \in 0..(Phi0MaxThreads - 1) : Phi0Step(t)

SpecPhi0 == InitPhi0 /\ [][NextPhi0]_vars

\* the runs in which every thread of the parallel region keeps running
FairSpecPhi0 == SpecPhi0 /\ WF_vars(NextPhi0)

\* the n of C28: 1, the primes p[b] with k < b <= pi(y), and the square
\* free products <= z of two or more of them
Phi0Leaves(y, z, k) ==
    LET ps == {nth_prime(i) : i \in (k + 1)..PrimePi(y)}
    IN  {1} \cup ps \cup
        {n \in 2..z : /\ mu(n) # 0
                      /\ \A q \in 2..n : (IsPrime(q) /\ n % q = 0) => q \in ps
                      /\ ~IsPrime(n)}

Phi0Ref(x, y, z, k) ==
    SumFn([n \in Phi0Leaves(y, z, k) |-> mu(n) * phi_tiny(x \div n, k)])

\* C28: Phi0_OpenMP(x, y, z, k) returns the sum over n of
\* mu(n) * phi_tiny(x / n, k), n being 1, the primes p[b] with
\* k < b <= pi(y), and the square free products <= z of two or more such
\* primes; each n is enumerated once, with the primes of a product taken in
\* increasing order; the recursion is never deeper than the number of those
\* primes and the call returns; the result does not depend on the number of
\* threads.
C28_Phi0IsSumOverLeaves ==
    /\ [](phi0 # Idle =>
            /\ \A n \in DOMAIN phi0.seen :
                  phi0.seen[n] = 1 /\ n \in Phi0Leaves(phi0.y, phi0.z, phi0.k)
            /\ \A t \in 0..(phi0.threads - 1) :
                  LET stack == phi0.th[t].stack
                  IN  /\ Len(stack) <= max(phi0.pi_y - phi0.k, 0)
                      /\ \A d \in 1..Len(stack) :
                            /\ stack[d].b <= phi0.pi_y
                            /\ d > 1 => stack[d].b > stack[d - 1].b - 1
                            /\ d > 1 => stack[d].square_free % stack[d - 1].square_free = 0
            /\ phi0.pc = "done" =>
                  /\ DOMAIN phi0.seen = Phi0Leaves(phi0.y, phi0.z, phi0.k)
                  /\ phi0.phi0 = Phi0Ref(phi0.x, phi0.y, phi0.z, phi0.k))
    /\ <>(phi0 # Idle /\ phi0.pc = "done")

\* a call that two threads ran has returned; it had a product of three primes
C28_Witness ==
    /\ phi0 # Idle /\ phi0.pc = "done" /\ phi0.threads = 2
    /\ \E n \in DOMAIN phi0.seen : n > 1 /\ mu(n) = 0 - 1 /\ ~IsPrime(n)
    /\ phi0.phi0 # phi_tiny(phi0.x, phi0.k)

(***************************************************************************)
(* cmdoptions.cpp: parseOptions runs parseOption over argv.  A string is   *)
(* the sequence of its characters.  cmd.tok is argv[i]; the elements of    *)
(* argv behind it are drawn when parseOption looks at them.  cmd.calls is  *)
(* the set of the setters called so far, each with the value it was given. *)
(***************************************************************************)
MaxArgs == 2

\* the argv elements tried
Tokens ==
    {<<>>,
     <<"-", "t">>,
     <<"-", "-", "t", "h", "r", "e", "a", "d", "s", "=", "8">>,
     <<"-", "t", "8">>,
     <<"-", "-", "t", "h", "r", "e", "a", "d", "s", "=">>,
     <<"-", "-", "s", "t", "a", "t", "u", "s">>,
     <<"-", "-", "t", "i", "m", "e">>,
     <<"-", "l">>,
     <<"-", "-", "f", "o", "o">>,
     <<"-", "-", "f", "o", "o", "=", "8">>,
     <<"-", "x", "8">>,
     <<"8">>,
     <<"x">>,
     <<"-", "8">>,
     <<"-">>,
     <<"-", "-", "P", "h", "i", "0">>,
     <<"-", "-", "p", "h", "i", "0">>,
     <<"8", "x">>,
     <<"-", "-", "a", "l", "p", "h", "a", "-", "y">>,
     <<"-", "h">>,
     <<"-", "b">>,
     <<"-", "r">>,
     <<"-", "-", "b", "a", "c", "k", "u", "p", "=", "a">>,
     <<"-", "-", "r", "e", "s", "u", "m", "e", "=", "a">>,
     <<"-", "-", "r", "e", "s", "u", "m", "e", "=", "b">>}

Letters ==
    {"a", "b", "c", "d", "e", "f", "g", "h", "i", "j", "k", "l", "m",
     "n", "o", "p", "q", "r", "s", "t", "u", "v", "w", "x", "y", "z",
     "A", "B", "C", "D", "E", "F", "G", "H", "I", "J", "K", "L", "M",
     "N", "O", "P", "Q", "R", "S", "T", "U", "V", "W", "X", "Y", "Z"}

Digits == {"0", "1", "2", "3", "4", "5", "6", "7", "8", "9"}

\* map<string, std::pair<OptionID, IsParam>> optionMap
optionMap ==
    {[name |-> <<"-", "b">>, id |-> "OPTION_BACKUP", param |-> "REQUIRED_PARAM"],
     [name |-> <<"-", "-", "b", "a", "c", "k", "u", "p">>, id |-> "OPTION_BACKUP", param |-> "REQUIRED_PARAM"],
     [name |-> <<"-", "r">>, id |-> "OPTION_RESUME", param |-> "OPTIONAL_PARAM"],
     [name |-> <<"-", "-", "r", "e", "s", "u", "m", "e">>, id |-> "OPTION_RESUME", param |-> "OPTIONAL_PARAM"],
     [name |-> <<"-", "-", "a", "l", "p", "h", "a", "-", "y">>, id |-> "OPTION_ALPHA_Y", param |-> "REQUIRED_PARAM"],
     [name |-> <<"-", "-", "a", "l", "p", "h", "a", "-", "z">>, id |-> "OPTION_ALPHA_Z", param |-> "REQUIRED_PARAM"],
     [name |-> <<"-", "g">>, id |-> "OPTION_GOURDON", param |-> "NO_PARAM"],
     [name |-> <<"-", "-", "g", "o", "u", "r", "d", "o", "n">>, id |-> "OPTION_GOURDON", param |-> "NO_PARAM"],
     [name |-> <<"-", "-", "g", "o", "u", "r", "d", "o", "n", "-", "6", "4">>, id |-> "OPTION_GOURDON_64", param |-> "NO_PARAM"],
     [name |-> <<"-", "-", "g", "o", "u", "r", "d", "o", "n", "-", "1", "2", "8">>, id |-> "OPTION_GOURDON_128", param |-> "NO_PARAM"],
     [name |-> <<"-", "h">>, id |-> "OPTION_HELP", param |-> "NO_PARAM"],
     [name |-> <<"-", "-", "h", "e", "l", "p">>, id |-> "OPTION_HELP", param |-> "NO_PARAM"],
     [name |-> <<"-", "l">>, id |-> "OPTION_LEGENDRE", param |-> "NO_PARAM"],
     [name |-> <<"-", "-", "l", "e", "g", "e", "n", "d", "r", "e">>, id |-> "OPTION_LEGENDRE", param |-> "NO_PARAM"],
     [name |-> <<"-", "m">>, id |-> "OPTION_MEISSEL", param |-> "NO_PARAM"],
     [name |-> <<"-", "-", "m", "e", "i", "s", "s", "e", "l">>, id |-> "OPTION_MEISSEL", param |-> "NO_PARAM"],
     [name |-> <<"-", "n">>, id |-> "OPTION_NTHPRIME", param |-> "NO_PARAM"],
     [name |-> <<"-", "-", "n", "t", "h", "-", "p", "r", "i", "m", "e">>, id |-> "OPTION_NTHPRIME", param |-> "NO_PARAM"],
     [name |-> <<"-", "-", "n", "u", "m", "b", "e", "r">>, id |-> "OPTION_NUMBER", param |-> "REQUIRED_PARAM"],
     [name |-> <<"-", "p">>, id |-> "OPTION_PRIMESIEVE", param |-> "NO_PARAM"],
     [name |-> <<"-", "-", "p", "r", "i", "m", "e", "s", "i", "e", "v", "e">>, id |-> "OPTION_PRIMESIEVE", param |-> "NO_PARAM"],
     [name |-> <<"-", "-", "L", "i">>, id |-> "OPTION_LI", param |-> "NO_PARAM"],
     [name |-> <<"-", "-", "L", "i", "-", "i", "n", "v", "e", "r", "s", "e">>, id |-> "OPTION_LIINV", param |-> "NO_PARAM"],
     [name |-> <<"-", "-", "R", "i">>, id |-> "OPTION_RI", param |-> "NO_PARAM"],
     [name |-> <<"-", "-", "R", "i", "-", "i", "n", "v", "e", "r", "s", "e">>, id |-> "OPTION_RIINV", param |-> "NO_PARAM"],
     [name |-> <<"-", "-", "p", "h", "i">>, id |-> "OPTION_PHI", param |-> "NO_PARAM"],
     [name |-> <<"-", "-", "A", "C">>, id |-> "OPTION_AC", param |-> "NO_PARAM"],
     [name |-> <<"-", "B">>, id |-> "OPTION_B", param |-> "NO_PARAM"],
     [name |-> <<"-", "-", "B">>, id |-> "OPTION_B", param |-> "NO_PARAM"],
     [name |-> <<"-", "D">>, id |-> "OPTION_D", param |-> "NO_PARAM"],
     [name |-> <<"-", "-", "D">>, id |-> "OPTION_D", param |-> "NO_PARAM"],
     [name |-> <<"-", "-", "P", "h", "i", "0">>, id |-> "OPTION_PHI0", param |-> "NO_PARAM"],
     [name |-> <<"-", "-", "S", "i", "g", "m", "a">>, id |-> "OPTION_SIGMA", param |-> "NO_PARAM"],
     [name |-> <<"-", "s">>, id |-> "OPTION_STATUS", param |-> "OPTIONAL_PARAM"],
     [name |-> <<"-", "-", "s", "t", "a", "t", "u", "s">>, id |-> "OPTION_STATUS", param |-> "OPTIONAL_PARAM"],
     [name |-> <<"-", "-", "t", "e", "s", "t">>, id |-> "OPTION_TEST", param |-> "NO_PARAM"],
     [name |-> <<"-", "-", "t", "i", "m", "e">>, id |-> "OPTION_TIME", param |-> "NO_PARAM"],
     [name |-> <<"-", "t">>, id |-> "OPTION_THREADS", param |-> "REQUIRED_PARAM"],
     [name |-> <<"-", "-", "t", "h", "r", "e", "a", "d", "s">>, id |-> "OPTION_THREADS", param |-> "REQUIRED_PARAM"],
     [name |-> <<"-", "v">>, id |-> "OPTION_VERSION", param |-> "NO_PARAM"],
     [name |-> <<"-", "-", "v", "e", "r", "s", "i", "o", "n">>, id |-> "OPTION_VERSION", param |-> "NO_PARAM"]}

OptionNames == {e.name : e \in optionMap}

\* optionMap[name]
option_of(name) == CHOOSE e \in optionMap : e.name = name

\* str.find(...) / str.find_first_of(...) counted from 1; 0 is string::npos
find_first_of(str, chars) ==
    IF \E k \in 1..Len(str) : str[k] \in chars
    THEN CHOOSE k \in 1..Len(str) :
             str[k] \in chars /\ \A j \in 1..(k - 1) : str[j] \notin chars
    ELSE 0

\* isOption(str): "-" or "--", then a Latin letter
isOption(str) ==
    IF Len(str) >= 2 /\ str[1] = "-" /\ str[2] \in Letters THEN TRUE
    ELSE Len(str) >= 3 /\ str[1] = "-" /\ str[2] = "-" /\ str[3] \in Letters

NoError == [text |-> "", arg |-> <<>>]

\* throw primecount_error(text + " '" + arg + "'")
primecount_error(text, arg) == [text |-> text, arg |-> arg]

number_option == <<"-", "-", "n", "u", "m", "b", "e", "r">>

\* backup_file() before any set_backup_file
default_backup_file ==
    <<"p", "r", "i", "m", "e", "c", "o", "u", "n", "t", ".", "b", "a", "c", "k", "u", "p">>

\* what parseOption hands back: the option, and how many elements of argv
\* behind argv[i] it has taken
Parsed(opt, val, used, err) == [opt |-> opt, val |-> val, used |-> used, err |-> err]

\* parseOption for a str that is a key of optionMap
parse_exact(str, next, has_next) ==
    LET isParam == option_of(str).param
        val == IF has_next THEN next ELSE <<>>
    IN  IF isParam = "REQUIRED_PARAM"
        THEN IF val = <<>> \/ isOption(val)
             THEN Parsed(str, val, 1, primecount_error("missing value for option", str))
             ELSE Parsed(str, val, 1, NoError)
        ELSE IF isParam = "OPTIONAL_PARAM" /\ has_next /\ next # <<>> /\ ~isOption(next)
        THEN Parsed(str, next, 1, NoError)
        ELSE Parsed(str, <<>>, 0, NoError)

\* a missing value is an error for an option of REQUIRED_PARAM
check_value(opt, val) ==
    IF val = <<>> /\ option_of(opt).param = "REQUIRED_PARAM"
    THEN Parsed(opt, val, 0, primecount_error("missing value for option", opt))
    ELSE Parsed(opt, val, 0, NoError)

\* The mutated parseOption: an unknown --opt=N is reported like an unknown
\* --opt[N], with the full string.
parse_option_full_str(str) ==
    LET eq == find_first_of(str, {"="})
        digit == find_first_of(str, Digits)
        pos == IF eq # 0 THEN eq ELSE digit
        opt == IF pos = 0 THEN str ELSE SubSeq(str, 1, pos - 1)
        val == IF pos = 0 THEN <<>>
               ELSE SubSeq(str, IF eq # 0 THEN pos + 1 ELSE pos, Len(str))
    IN  IF opt \notin OptionNames
        THEN Parsed(opt, val, 0, primecount_error("unrecognized option", str))
        ELSE check_value(opt, val)

\* parseOption for a str that isOption and is no key of optionMap:
\* --opt=N, or --opt[N]
parse_option(str) ==
    LET eq == find_first_of(str, {"="})
        digit == find_first_of(str, Digits)
        pos == IF eq # 0 THEN eq ELSE digit
        opt == IF pos = 0 THEN str ELSE SubSeq(str, 1, pos - 1)
        val == IF pos = 0 THEN <<>>
               ELSE SubSeq(str, IF eq # 0 THEN pos + 1 ELSE pos, Len(str))
    IN  IF opt \notin OptionNames
        THEN Parsed(opt, val, 0,
                    primecount_error("unrecognized option", IF eq # 0 THEN opt ELSE str))
        ELSE check_value(opt, val)

\* parseOption for a str that is a number or an arithmetic expression
parse_number(str) ==
    IF find_first_of(str, Digits) = 0
    THEN Parsed(number_option, str, 0, primecount_error("unrecognized option", str))
    ELSE IF str[1] = "-"
    THEN Parsed(number_option, str, 0, primecount_error("unrecognized option", str))
    ELSE Parsed(number_option, str, 0, NoError)

\* parseOption(argc, argv, i), with str = argv[i] and next = argv[i + 1]
\* (has_next: i + 1 < argc)
parseOption(str, next, has_next) ==
    IF str = <<>> THEN Parsed(<<>>, <<>>, 0, primecount_error("unrecognized option", <<>>))
    ELSE IF str \in OptionNames THEN parse_exact(str, next, has_next)
    ELSE IF isOption(str) THEN parse_option(str)
    ELSE parse_number(str)

\* opt.to<T>() succeeds: to_maxint wants digits only, stod takes a number
\* at the start of val
converts(val, floating) ==
    IF floating
    THEN IF Len(val) >= 1 /\ val[1] \in Digits THEN TRUE
         ELSE Len(val) >= 2 /\ val[1] = "-" /\ val[2] \in Digits
    ELSE val # <<>> /\ \A k \in 1..Len(val) : val[k] \in Digits

invalid_option(p) == primecount_error("invalid option", p.opt \o <<"=">> \o p.val)

\* the setter called with val, or the error of opt.to<T>()
set_or_fail(c, p, setter, floating) ==
    IF converts(p.val, floating)
    THEN [c EXCEPT !.calls = @ \cup {<<setter, p.val>>}]
    ELSE [c EXCEPT !.pc = "error", !.err = invalid_option(p)]

\* optionResume(opt, opts); opened: the file can be opened
optionResume(c, p, opened) ==
    LET file == IF p.val # <<>> THEN p.val ELSE c.backup_file
        d == [c EXCEPT !.resumeFile = file, !.backup_file = file,
                       !.calls = @ \cup {<<"set_backup_file", file>>}]
    IN  IF opened THEN d
        ELSE [d EXCEPT !.pc = "error",
                       !.err = primecount_error("failed to open backup file:", file)]

\* optionStatus(opt, opts)
optionStatus(c, p) ==
    LET d == [c EXCEPT !.calls = @ \cup {<<"set_print", <<>>>>}, !.time = TRUE]
    IN  IF p.val = <<>> THEN d ELSE set_or_fail(d, p, "set_status_precision", FALSE)

\* the switch of parseOptions on optionMap[opt.opt].first
cmd_switch(c, p, opened) ==
    LET id == option_of(p.opt).id
    IN  CASE id = "OPTION_BACKUP" ->
                 [c EXCEPT !.backup_file = p.val,
                           !.calls = @ \cup {<<"set_backup_file", p.val>>}]
          [] id = "OPTION_RESUME" -> optionResume(c, p, opened)
          [] id = "OPTION_ALPHA_Y" -> set_or_fail(c, p, "set_alpha_y", TRUE)
          [] id = "OPTION_ALPHA_Z" -> set_or_fail(c, p, "set_alpha_z", TRUE)
          [] id = "OPTION_NUMBER" ->
                 IF converts(p.val, FALSE)
                 THEN [c EXCEPT !.numbers = IF Len(@) < MaxArgs THEN Append(@, p.val) ELSE @]
                 ELSE [c EXCEPT !.pc = "error", !.err = invalid_option(p)]
          [] id = "OPTION_THREADS" -> set_or_fail(c, p, "set_num_threads", FALSE)
          [] id \in {"OPTION_HELP", "OPTION_TEST", "OPTION_VERSION"} -> [c EXCEPT !.pc = "exit"]
          [] id = "OPTION_STATUS" -> optionStatus(c, p)
          [] id = "OPTION_TIME" -> [c EXCEPT !.time = TRUE]
          [] OTHER -> [c EXCEPT !.option = id]

\* parseOptions(argc, argv) at the head of its loop; argc <= 1: help(1)
CmdStart ==
    \E argc \in 1..(MaxArgs + 1), tok \in Tokens :
        /\ cmd = Idle
        /\ argc <= 1 => tok = <<>>
        /\ cmd' = [op |-> "parseOptions", pc |-> IF argc <= 1 THEN "exit" ELSE "loop",
                   argc |-> argc, i |-> 1, tok |-> tok,
                   calls |-> {}, numbers |-> <<>>, option |-> "OPTION_DEFAULT",
                   time |-> FALSE, resumeFile |-> <<>>, backupFile |-> <<>>,
                   backup_file |-> default_backup_file, err |-> NoError,
                   given |-> {}]
        /\ UNCHANGED <<sieve, last, p2, pt, pl, lmo, lb, json, status, phi0>>

\* The history of the files the command line has given: the value of each
\* -b/--backup, and the file each -r/--resume stands for.
FilesGiven(c, p) ==
    LET id == option_of(p.opt).id
    IN  IF id = "OPTION_BACKUP" THEN c.given \cup {<<id, p.val>>}
        ELSE IF id = "OPTION_RESUME"
        THEN c.given \cup {<<id, IF p.val # <<>> THEN p.val ELSE c.backup_file>>}
        ELSE c.given

\* one iteration of the loop: parseOption, then the switch
CmdParseOption ==
    \E next \in Tokens, after \in Tokens, opened \in BOOLEAN :
        /\ cmd # Idle /\ cmd.pc = "loop" /\ cmd.i < cmd.argc
        /\ LET p == parseOption(cmd.tok, next, cmd.i + 1 < cmd.argc)
               i == cmd.i + p.used + 1
               c == [cmd EXCEPT !.i = i,
                                !.tok = IF i >= cmd.argc THEN <<>>
                                        ELSE IF p.used = 0 THEN next ELSE after,
                                !.given = FilesGiven(cmd, p)]
           IN  cmd' = IF p.err # NoError
                      THEN [cmd EXCEPT !.pc = "error", !.err = p.err]
                      ELSE cmd_switch(c, p, opened)
        /\ UNCHANGED <<sieve, last, p2, pt, pl, lmo, lb, json, status, phi0>>

\* after the loop: the numbers are taken, the files compared
CmdFinish ==
    /\ cmd # Idle /\ cmd.pc = "loop" /\ cmd.i >= cmd.argc
    /\ LET resuming == cmd.resumeFile # <<>>
       IN  cmd' =
               IF ~resuming /\ cmd.option = "OPTION_PHI" /\ Len(cmd.numbers) < 2
               THEN [cmd EXCEPT !.pc = "error",
                                !.err = primecount_error("option --phi requires 2 numbers", <<>>)]
               ELSE IF ~resuming /\ cmd.numbers = <<>>
               THEN [cmd EXCEPT !.pc = "error",
                                !.err = primecount_error("missing x number", <<>>)]
               ELSE IF cmd.backupFile # <<>> /\ cmd.resumeFile # <<>>
                       /\ cmd.backupFile # cmd.resumeFile
               THEN [cmd EXCEPT !.pc = "error",
                                !.err = primecount_error(
                                            "resume and backup file must be identical", <<>>)]
               ELSE [cmd EXCEPT !.pc = "done"]
    /\ UNCHANGED <<sieve, last, p2, pt, pl, lmo, lb, json, status, phi0>>

InitCmd ==
    /\ sieve = NoSieve
    /\ last = Idle
    /\ p2 = Idle
    /\ pt = Idle
    /\ pl = Idle
    /\ lmo = Idle
    /\ lb = Idle
    /\ cmd = Idle
    /\ json = Idle
    /\ status = Idle
    /\ phi0 = Idle

NextCmd == CmdStart \/ CmdParseOption \/ CmdFinish

SpecCmd == InitCmd /\ [][NextCmd]_vars

\* the option name of a token that looks like an option: the token if it is
\* a key of optionMap, else its part before "=", else its part before the
\* first digit
option_name(str) ==
    LET eq == find_first_of(str, {"="})
        digit == find_first_of(str, Digits)
    IN  IF str \in OptionNames THEN str
        ELSE IF eq # 0 THEN SubSeq(str, 1, eq - 1)
        ELSE IF digit # 0 THEN SubSeq(str, 1, digit - 1)
        ELSE str

\* the tokens of the claim: an option with an unknown name, or a non-option
\* without a digit or with a leading "-"
Offending(str) ==
    IF isOption(str) THEN option_name(str) \notin OptionNames
    ELSE IF find_first_of(str, Digits) = 0 THEN TRUE
    ELSE str[1] = "-"

\* parseOption is called for the token cmd.tok
CmdMeets == cmd # Idle /\ cmd.pc = "loop" /\ cmd.i < cmd.argc /\ cmd' # cmd

\* C18 as stated: parseOption fails on every such token with an error whose
\* message names the token, and no setter is called for it.
C18_ErrorNamesToken ==
    [][(CmdMeets /\ Offending(cmd.tok)) =>
          /\ cmd'.pc = "error"
          /\ cmd'.err = primecount_error("unrecognized option", cmd.tok)
          /\ cmd'.calls = cmd.calls]_vars

\* C18, amended: parseOption fails on every such token with the error
\* "unrecognized option '...'", which names the token, except for an unknown
\* option of the form --opt=N, for which it names --opt only; no setter is
\* called and no option is set for the token.  No other token at this place
\* fails with this error.
C18_ErrorNamesOption ==
    [][CmdMeets =>
          IF Offending(cmd.tok)
          THEN /\ cmd'.pc = "error"
               /\ cmd'.err = primecount_error("unrecognized option",
                                 IF isOption(cmd.tok) /\ find_first_of(cmd.tok, {"="}) # 0
                                 THEN option_name(cmd.tok) ELSE cmd.tok)
               /\ cmd'.calls = cmd.calls /\ cmd'.numbers = cmd.numbers
               /\ cmd'.option = cmd.option /\ cmd'.time = cmd.time
          ELSE cmd'.err.text # "unrecognized option"]_vars

\* an unknown --opt=N met after a setter had been called for the token before
C18_Witness ==
    /\ cmd # Idle /\ cmd.pc = "error"
    /\ cmd.err.text = "unrecognized option"
    /\ isOption(cmd.tok) /\ cmd.err.arg # cmd.tok
    /\ cmd.calls # {}

\* the command line has given a backup file and a resume file that differ
CmdFilesDiffer ==
    \E f \in cmd.given, g \in cmd.given :
        f[1] = "OPTION_BACKUP" /\ g[1] = "OPTION_RESUME" /\ f[2] # g[2]

\* C29: when the command line gives both a backup file (-b/--backup F1) and
\* a resume file (-r/--resume F2) with F1 # F2, parseOptions fails with the
\* error "resume and backup file must be identical": it does not return
\* options for such a command line.
C29_DifferentFilesFail ==
    (cmd # Idle /\ cmd.pc = "done") => ~CmdFilesDiffer

\* parseOptions has returned for --backup=F1 --resume=F2, F1 # F2
C29_Witness ==
    /\ cmd # Idle /\ cmd.pc = "done" /\ CmdFilesDiffer
    /\ cmd.backupFile = <<>> /\ cmd.resumeFile # <<>>

(***************************************************************************)
(* The special-leaf loops of S2, seen from outside                         *)
(***************************************************************************)
\* the number of the integers of [1, n] that none of the first a primes
\* divides
coprime_count(n, a) ==
    Cardinality({v \in 1..n : \A i \in 1..a : v % nth_prime(i) # 0})

\* the index of the prime whose leaves the b loop is at: b in pi_lmo5, b + 1
\* in pi_lmo3 (whose phi[b + 1] is pi_lmo5's phi[b])
leaf_prime_index(r) == IF r.alg = "pi_lmo5" THEN r.b ELSE r.b + 1

\* a step that ends an iteration of a b loop: the leaf loop is through, phi
\* is advanced to the segment's end and the prime is crossed off
PhiAdvances ==
    /\ lmo # Idle /\ lmo.run # Idle /\ lmo.run.pc \in {"leaves", "leaves2"}
    /\ lmo' # Idle /\ lmo'.run # Idle /\ lmo'.run.pc = "prime"

\* C15 as stated: phi[b] is advanced by the total count taken after the
\* multiples of p[b] have been crossed off, and then is the number of the
\* integers <= high - 1 whose smallest prime factor is > p[b].
C15_PhiAfterCrossOff ==
    [][PhiAdvances =>
          LET r == lmo.run
              k == leaf_prime_index(r)
          IN  /\ r.alg = "pi_lmo5" =>
                     lmo'.run.phi[k] = r.phi[k] + CrossOffCount(r.sv, r.prime).total_count
              /\ lmo'.run.phi[k] = coprime_count(r.high - 1, k)]_vars

\* C15, amended: when the leaves of p[b] in a segment are through, phi[b] is
\* advanced by the sieve's total count taken before the multiples of p[b]
\* are crossed off (those of p[1..b-1] are), and no other phi changes; phi[b]
\* then is the number of the integers of [1, high - 1] that none of
\* p[1..b-1] divides (1 and those whose smallest prime factor is > p[b-1]).
\* In pi_lmo3 the same holds with its b + 1 in place of b, the count being
\* added in parts.
C15_PhiBeforeCrossOff ==
    [][PhiAdvances =>
          LET r == lmo.run
              k == leaf_prime_index(r)
          IN  /\ r.prime = r.primes[k] /\ k > r.c
              /\ r.alg = "pi_lmo5" =>
                     /\ lmo'.run.phi[k] = r.phi[k] + r.sv.total_count
                     /\ r.sv.total_count =
                            coprime_count(r.high - 1, k - 1) - coprime_count(r.low - 1, k - 1)
                     /\ lmo'.run.sv.total_count =
                            coprime_count(r.high - 1, k) - coprime_count(r.low - 1, k)
              /\ lmo'.run.phi[k] = coprime_count(r.high - 1, k - 1)
              /\ \A j \in DOMAIN r.phi : j # k => lmo'.run.phi[j] = r.phi[j]]_vars

\* pi_lmo5 has advanced the phi of a prime past the first in a later segment
\* in which the prime had multiples to cross off
C15_Witness ==
    /\ LmoRunning("pi_lmo5", "prime")
    /\ lmo.run.low >= 2 * lmo.run.segment_size
    /\ lmo.run.b > lmo.run.c + 2
    /\ lmo.run.phi[lmo.run.b - 1] > coprime_count(lmo.run.high - 1, lmo.run.b - 1)
    /\ coprime_count(lmo.run.high - 1, lmo.run.b - 2)
           - coprime_count(lmo.run.low - 1, lmo.run.b - 2) > lmo.run.sv.total_count

\* C16 as stated: within one inner leaf loop (one segment, one b) the stop
\* passed to sieve.count strictly increases from each processed leaf to the
\* next.
C16_StopStrictlyIncreases ==
    (last.op = "count" /\ last.loop_prev # NoStop) => last.stop > last.loop_prev

\* C16, amended: within one inner leaf loop m (resp. primes[l]) strictly
\* decreases from each processed leaf to the next, and the stop
\* x / (prime * m) - low (resp. x / (prime * primes[l]) - low) never
\* decreases; it may stay the same, since the quotients are rounded down.
C16_StopNeverDecreases ==
    (last.op = "count" /\ last.loop_prev # NoStop) =>
        /\ last.q < last.prev_q
        /\ last.stop >= last.loop_prev
        /\ last.stop = lmo.x \div (lmo.run.prime * last.q) - lmo.run.low
        /\ last.loop_prev = lmo.x \div (lmo.run.prime * last.prev_q) - lmo.run.low
        /\ lmo.run.sv.prev_stop = last.stop

\* two leaves in a row of one inner loop with the same stop
C16_Witness ==
    /\ last.op = "count" /\ last.loop_prev # NoStop
    /\ last.q < last.prev_q
    /\ last.stop = last.loop_prev

LeafStep ==
    /\ lmo # Idle /\ lmo.run # Idle /\ lmo.run.pc \in {"leaves", "leaves2"}
    /\ lmo' # Idle /\ lmo'.run # Idle /\ lmo'.run.leaves = lmo.run.leaves + 1

\* the m of the leaf a LeafStep processes (primes[l] for a leaf of two primes)
leaf_m(r) == IF r.pc = "leaves2" THEN r.primes[r.l] ELSE next_leaf(r)

\* what a LeafStep adds to s2
leaf_sign(r) == IF r.pc = "leaves2" THEN 1 ELSE 0 - mu(leaf_m(r))

\* C24: for every special leaf (b, m) processed in a segment [low, high),
\* phi[b] + sieve.count(x / (p[b] * m) - low) is phi(x / (p[b] * m), b - 1),
\* the number of the integers of [1, x / (p[b] * m)] that none of the first
\* b - 1 primes divides, and it is what the leaf adds to s2; when the leaves
\* of b are entered in a segment, phi[b] is the number of the integers of
\* [1, low - 1] that none of p[1..b-1] divides (in pi_lmo3, whose phi[b + 1]
\* is counted on leaf by leaf, that number for [1, i - 1], i starting at low).
C24_LeafValueIsPhi ==
    /\ [](\/ LmoRunning("pi_lmo5", "leaves") \/ LmoRunning("pi_lmo5", "leaves2")
              => lmo.run.phi[lmo.run.b] = coprime_count(lmo.run.low - 1, lmo.run.b - 1))
    /\ [](LmoRunning("pi_lmo3", "leaves")
              => /\ lmo.run.phi[lmo.run.b + 1] = coprime_count(lmo.run.i - 1, lmo.run.b)
                 /\ lmo.run.i >= lmo.run.low)
    /\ [][LeafStep =>
             LET r == lmo.run
                 k == leaf_prime_index(r)
                 xpm == lmo.x \div (r.prime * leaf_m(r))
                 phi_xpm == IF r.alg = "pi_lmo5" THEN r.phi[k] + lmo'.run.sv.count
                            ELSE lmo'.run.phi[k]
             IN  /\ phi_xpm = coprime_count(xpm, k - 1)
                 /\ lmo'.run.s2 = r.s2 + leaf_sign(r) * phi_xpm
                 /\ r.alg = "pi_lmo5" => last'.stop = xpm - r.low]_vars

\* pi_lmo5 has processed a leaf in a later segment, for a prime with a phi
\* from the segments before and a count that is not the whole segment's
C24_Witness ==
    /\ LmoRunning("pi_lmo5", "leaves") \/ LmoRunning("pi_lmo5", "leaves2")
    /\ last.op = "count" /\ lmo.run.low > 0
    /\ lmo.run.phi[lmo.run.b] > 0
    /\ lmo.run.sv.count > 0 /\ lmo.run.sv.count < lmo.run.sv.total_count

\* the prime indexes the b loops of a segment can come to
LeafIndexes(r) ==
    IF r.alg = "pi_lmo5" THEN (r.c + 1)..max(r.pi_sqrty, r.a - 1) ELSE (r.c + 1)..(r.a - 1)

\* the test that leaves the segment, for the prime of index k
leaves_segment(x, r, k) ==
    IF r.alg = "pi_lmo5" THEN lmo5_bounds(x, [r EXCEPT !.b = k]).skip
    ELSE lmo3_break(x, r, k)

\* C25: once the b loop has left a segment early at prime index b (goto
\* next_segment in pi_lmo5, break in pi_lmo3), the test that leaves the
\* segment holds for every index b' >= b in that segment and in every later
\* one, the loop never comes to the leaves of such a b', and so every leaf
\* reads a phi[b] that has had the total count of every segment before and a
\* sieve in which the primes before p[b] are crossed off.
C25_LeftIndexesStayLeft ==
    (lmo # Idle /\ lmo.run # Idle /\ lmo.run.pc \in {"prime", "leaves", "leaves2"}) =>
        LET r == lmo.run
            k == leaf_prime_index(r)
        IN  /\ \A j \in LeafIndexes(r) : j >= r.left_at => leaves_segment(lmo.x, r, j)
            /\ r.pc \in {"leaves", "leaves2"} =>
                  /\ k < r.left_at
                  /\ r.alg = "pi_lmo5" =>
                        /\ r.phi[k] = coprime_count(r.low - 1, k - 1)
                        /\ r.sv.total_count = coprime_count(r.high - 1, k - 1)
                                                  - coprime_count(r.low - 1, k - 1)

\* pi_lmo5 is at the leaves of a prime in a later segment, and behind that
\* prime there is one the segment before was left at, whose phi is stale
C25_Witness ==
    /\ LmoRunning("pi_lmo5", "leaves") \/ LmoRunning("pi_lmo5", "leaves2")
    /\ lmo.run.low > lmo.run.segment_size
    /\ lmo.run.left_at < lmo.run.a
    /\ lmo.run.phi[lmo.run.left_at] # coprime_count(lmo.run.low - 1, lmo.run.left_at - 1)

\* C26: every stop passed to the sieve lies inside the current segment: for
\* every processed leaf of pi_lmo5 and pi_lmo3, low <= x / (prime * m) < high
\* (resp. x / (prime * primes[l])), so 0 <= stop < high - low: sieve.count
\* reads no position outside the segment, and pi_lmo3's index i stays within
\* [low, high].
C26_StopInsideSegment ==
    /\ [](last.op = "count" =>
              /\ 0 <= last.stop /\ last.stop < lmo.run.high - lmo.run.low
              /\ last.stop < SieveSize
              /\ lmo.run.sv.prev_stop = last.stop)
    /\ [](LmoRunning("pi_lmo3", "leaves") =>
              lmo.run.low <= lmo.run.i /\ lmo.run.i <= lmo.run.high)
    /\ [][LeafStep =>
             LET r == lmo.run
                 xpm == lmo.x \div (r.prime * leaf_m(r))
             IN  /\ r.low <= xpm /\ xpm < r.high
                 /\ r.alg = "pi_lmo5" => last'.stop = xpm - r.low
                 /\ r.alg = "pi_lmo3" => lmo'.run.i = max(r.i, xpm + 1)]_vars

\* a leaf of a later segment whose stop is the segment's last position
C26_Witness ==
    /\ last.op = "count" /\ lmo.run.low > 0
    /\ last.stop = lmo.run.high - lmo.run.low - 1

\* the buckets of worker i's range [start, stop) of init()
PtBuckets(t, i) ==
    IF pt_start(t, i) < pt_stop(t, i)
    THEN ((pt_start(t, i) - t.low) \div BucketSize)
             ..(ceil_div(pt_stop(t, i) - t.low, BucketSize) - 1)
    ELSE {}

\* the buckets of the window [low, high)
PtWindowBuckets(t) == 0..(ceil_div(t.high - t.low, BucketSize) - 1)

\* the bits bucket k of the window has to hold: those of its odd primes
\* below high, and the first bit of the table for 1 in place of 2
PtBitsOf(t, k) ==
    {prime_bit(q - t.low) :
        q \in {r \in (t.low + BucketSize * k)..(min(t.low + BucketSize * (k + 1), t.high) - 1) :
                  r > 2 /\ IsPrime(r)}}
        \cup (IF k = 0 /\ t.low <= 1 THEN {0} ELSE {})

\* C27: init() builds the same table for every schedule of its workers: the
\* bucket ranges of the bit pass are pairwise disjoint and cover every
\* bucket of [low, high); a worker that is through the bit pass has left in
\* its buckets the bits of their primes and in counts their number; no
\* worker reads counts before all the bit-pass workers are through; a worker
\* that is through the count pass has left in each of its buckets j
\* prime_count = pi_low + the number of the set bits of the buckets 0..j-1.
C27_InitIsScheduleIndependent ==
    (pt # Idle /\ ~pt_finished(pt)) =>
        /\ \A i, j \in 0..(pt.threads - 1) : i # j => PtBuckets(pt, i) \cap PtBuckets(pt, j) = {}
        /\ UNION {PtBuckets(pt, i) : i \in 0..(pt.threads - 1)} = PtWindowBuckets(pt)
        /\ PtWindowBuckets(pt) \subseteq DOMAIN pt.pi
        /\ pt.count_done # {} => pt.bits_done = 0..(pt.threads - 1)
        /\ \A i \in pt.bits_done :
              /\ \A k \in PtBuckets(pt, i) : pt.pi[k].bits = PtBitsOf(pt, k)
              /\ PtBuckets(pt, i) # {} =>
                    pt.counts[i] = SumFn([k \in PtBuckets(pt, i) |-> Cardinality(PtBitsOf(pt, k))])
        /\ \A i \in pt.count_done : \A k \in PtBuckets(pt, i) :
              /\ pt.pi[k].prime_count
                    = pt.pi_low + SumFn([j \in 0..(k - 1) |-> Cardinality(pt.pi[j].bits)])
              /\ pt.pi[k].prime_count
                    = pt.pi_low + SumFn([j \in 0..(k - 1) |-> Cardinality(PtBitsOf(pt, j))])

\* a later window whose second worker went through the count pass before
\* the first
C27_Witness ==
    /\ pt # Idle /\ ~pt_finished(pt) /\ pt.threads = 2 /\ pt.low > 0
    /\ pt.count_done = {1} /\ PtBuckets(pt, 1) # {}
    /\ pt.pi_low > 0 /\ pt.counts[0] > 0
    /\ \E k \in PtBuckets(pt, 1) :
           pt.pi[k].prime_count = pt.pi_low + pt.counts[0] /\ pt.pi[k].bits # {}

Spec == SpecSieve

=============================================================================
